---- MODULE Spec2Model ----
(***************************************************************************)
(* A model of the Calibre Librarian catalogue browser: the boolean search  *)
(* language (src/utils/search.ts), the filter / sort / pagination pipeline *)
(* of the book browser (src/components/BookBrowser.tsx), the application   *)
(* shell that owns the loaded library (src/App.tsx), the statistics of the *)
(* dashboard, the ingestion of a library file                              *)
(* (src/components/LibraryLoader.tsx) and the cover cache                  *)
(* (src/components/BookCover.tsx).                                         *)
(*                                                                         *)
(* JavaScript strings are sequences of one-character strings, so that      *)
(* lexing, case folding and substring tests are computed, not assumed.     *)
(***************************************************************************)
EXTENDS Integers, Sequences, FiniteSets, TLC

VARIABLES
    library,            \* App: null, or the books array of the loaded library
    loadedBooks,        \* history: the books array exactly as it was loaded
    activeTab,          \* App: 'dashboard' | 'browser'
    browserSearchQuery, \* App: the initialSearch handed to the browser
    searchQuery,        \* BookBrowser state
    selectedFormat,     \* BookBrowser state, 'all' or a format
    selectedTags,       \* BookBrowser state, in selection order
    tagLogic,           \* BookBrowser state, 'AND' | 'OR'
    sortBy,             \* BookBrowser state
    currentPage,        \* BookBrowser state
    selectedBook,       \* BookBrowser state: the book of the detail view, or none
    processedBooks,     \* BookBrowser: the memoised pipeline result
    corpus,             \* which library files and inputs the user has at hand
    lastEvent,          \* history: the handler that ran last, and the page before
    engine,             \* the sort algorithm of the JavaScript engine in use
    search              \* a call of a function or a render of a component on its own

vars == <<library, loadedBooks, activeTab, browserSearchQuery, searchQuery,
          selectedFormat, selectedTags, tagLogic, sortBy, currentPage,
          selectedBook, processedBooks, corpus, lastEvent, engine, search>>

appVars == <<library, loadedBooks, activeTab, browserSearchQuery>>

browserVars == <<searchQuery, selectedFormat, selectedTags, tagLogic, sortBy,
                 currentPage, selectedBook, processedBooks>>

-----------------------------------------------------------------------------
(* Bounds of the model *)

\* the longest library the user loads in the browsing specification
MaxBooks == 2

\* the number of words joined by single spaces into a query
MaxWords == 3

\* the number of records of the library used for pagination
MaxCount == 50

\* the user opens the detail view of one of the first MaxOpen cards of a page
MaxOpen == 1

\* the most tags the user selects together
MaxTags == 2

\* the number of words of a query given to parseQuery on its own
MaxTokens == 2

\* the number of records of a library given to the Dashboard on its own
MaxCounted == 3

\* the number of elements of an array of a JSON document
MaxItems == 2

\* BookCover instances of one book mounted at a time: the cell of the grid
\* and the two of the detail view
MaxCovers == 3

-----------------------------------------------------------------------------
(* JavaScript strings *)

LowerCase == <<"a","b","c","d","e","f","g","h","i","j","k","l","m",
               "n","o","p","q","r","s","t","u","v","w","x","y","z">>

UpperCase == <<"A","B","C","D","E","F","G","H","I","J","K","L","M",
               "N","O","P","Q","R","S","T","U","V","W","X","Y","Z">>

\* the characters matched by \s and removed by String.prototype.trim
WhiteSpace == {" ", "\t", "\n"}

Quote == "\""

\* the place of each character of a sequence of distinct characters
indexIn(chars) ==
    [c \in {chars[i] : i \in 1..Len(chars)} |-> CHOOSE i \in 1..Len(chars) : chars[i] = c]

upperIndex == indexIn(UpperCase)

lowerIndex == indexIn(LowerCase)

toLowerChar(c) == IF c \in DOMAIN upperIndex THEN LowerCase[upperIndex[c]] ELSE c

toUpperChar(c) == IF c \in DOMAIN lowerIndex THEN UpperCase[lowerIndex[c]] ELSE c

toLowerCase(s) == [i \in 1..Len(s) |-> toLowerChar(s[i])]

toUpperCase(s) == [i \in 1..Len(s) |-> toUpperChar(s[i])]

\* String.prototype.trim: drop leading and trailing white space
trim(s) ==
    LET keep == {i \in 1..Len(s) : s[i] \notin WhiteSpace}
    IN  IF keep = {} THEN <<>>
        ELSE LET lo == CHOOSE i \in keep : \A j \in keep : i <= j
                 hi == CHOOSE i \in keep : \A j \in keep : j <= i
             IN  SubSeq(s, lo, hi)

\* String.prototype.includes
includes(content, target) ==
    \E i \in 0..(Len(content) - Len(target)) :
        SubSeq(content, i + 1, i + Len(target)) = target

\* the elements of an array, as a set
elements(arr) == {arr[i] : i \in 1..Len(arr)}

\* Array.prototype.includes
arrayIncludes(arr, x) == \E i \in 1..Len(arr) : arr[i] = x

-----------------------------------------------------------------------------
(* src/utils/search.ts: the query parser *)

\* an unmatched capture group, an absent token field (JavaScript undefined)
undefined == <<>>

\* the alternatives of the field group of the regex, (title|author|tag|publisher)
FieldNames == { <<"t","i","t","l","e">>, <<"a","u","t","h","o","r">>,
                <<"t","a","g">>, <<"p","u","b","l","i","s","h","e","r">> }

AND == <<"A","N","D">>

OR == <<"O","R">>

NOT == <<"N","O","T">>

NoMatch == [ok |-> FALSE, negation |-> undefined, field |-> undefined,
            quotedValue |-> undefined, simpleValue |-> undefined, lastIndex |-> 0]

\* (?:(title|author|tag|publisher):)? under the i flag, tried at position p:
\* the text captured (in the case it was written in), or undefined
fieldAt(q, p) ==
    LET hits == {n \in FieldNames :
                    /\ p + Len(n) <= Len(q)
                    /\ toLowerCase(SubSeq(q, p, p + Len(n) - 1)) = n
                    /\ q[p + Len(n)] = ":"}
    IN  IF hits = {} THEN undefined
        ELSE LET n == CHOOSE n \in hits : TRUE IN SubSeq(q, p, p + Len(n) - 1)

\* (?:"([^"]+)"|([^\s]+)) tried at position v: the quoted alternative first
valueAt(q, v) ==
    LET closing == {c \in (v + 1)..Len(q) : q[c] = Quote}
        close   == CHOOSE c \in closing : \A d \in closing : c <= d
        stops   == {e \in v..Len(q) : q[e] \in WhiteSpace}
        stop    == IF stops = {} THEN Len(q) + 1
                   ELSE CHOOSE e \in stops : \A d \in stops : e <= d
    IN  IF v > Len(q) THEN NoMatch
        ELSE IF q[v] = Quote /\ closing # {} /\ close >= v + 2
        THEN [NoMatch EXCEPT !.ok = TRUE, !.quotedValue = SubSeq(q, v + 1, close - 1),
                             !.lastIndex = close + 1]
        ELSE IF q[v] \notin WhiteSpace
        THEN [NoMatch EXCEPT !.ok = TRUE, !.simpleValue = SubSeq(q, v, stop - 1),
                             !.lastIndex = stop]
        ELSE NoMatch

\* the first of two attempts that matches
firstOk(attempt, next) == IF attempt.ok THEN attempt ELSE next

captured(match, negation, field) ==
    IF match.ok THEN [match EXCEPT !.negation = negation, !.field = field]
    ELSE NoMatch

\* the regex after its (-?) group, tried at start with the field group f
\* present (if there is a field there) before it is tried absent
withField(q, negation, start, f) ==
    firstOk(IF f = undefined THEN NoMatch
            ELSE captured(valueAt(q, start + Len(f) + 1), negation, f),
            captured(valueAt(q, start), negation, undefined))

\* the whole regex tried at position p, with the backtracking order of the
\* two optional groups: each is tried present before it is tried absent
matchAt(q, p) ==
    firstOk(IF p <= Len(q) /\ q[p] = "-"
            THEN withField(q, <<"-">>, p + 1, fieldAt(q, p + 1))
            ELSE NoMatch,
            withField(q, <<>>, p, fieldAt(q, p)))

\* the least element of a non-empty set of positions
least(positions) == CHOOSE p \in positions : \A r \in positions : p <= r

\* regex.exec(query) with the g flag: the first match at or after lastIndex
regexExec(q, lastIndex) ==
    IF \E p \in lastIndex..Len(q) : q[p] \notin WhiteSpace
    THEN matchAt(q, least({p \in lastIndex..Len(q) : q[p] \notin WhiteSpace}))
    ELSE NoMatch

\* const value = quotedValue || simpleValue
valueOf(match) ==
    IF match.quotedValue # undefined THEN match.quotedValue ELSE match.simpleValue

\* the body of the while loop of parseQuery: the token pushed for one match
tokenOf(match) ==
    IF /\ match.field = undefined
       /\ match.quotedValue = undefined
       /\ toUpperCase(valueOf(match)) \in {AND, OR, NOT}
    THEN [type |-> "operator", value |-> toUpperCase(valueOf(match)),
          field |-> undefined, negated |-> FALSE]
    ELSE [type |-> IF match.quotedValue # undefined THEN "phrase" ELSE "term",
          value |-> valueOf(match),
          field |-> match.field,
          negated |-> (match.negation = <<"-">> \/ toUpperCase(valueOf(match)) = NOT)]

\* the while loop pushing no token for an operator
RECURSIVE parseLoopWithoutOperators(_, _, _)
parseLoopWithoutOperators(query, match, tokens) ==
    IF ~match.ok THEN tokens
    ELSE parseLoopWithoutOperators(query, regexExec(query, match.lastIndex),
                                   IF tokenOf(match).type = "operator" THEN tokens
                                   ELSE Append(tokens, tokenOf(match)))

\* the while loop of parseQuery, entered with the result of regex.exec
RECURSIVE parseLoop(_, _, _)
parseLoop(query, match, tokens) ==
    IF ~match.ok THEN tokens
    ELSE parseLoop(query, regexExec(query, match.lastIndex),
                   Append(tokens, tokenOf(match)))

parseQuery(query) == parseLoop(query, regexExec(query, 1), <<>>)

-----------------------------------------------------------------------------
(* src/utils/search.ts: the evaluator *)

checkValue(text, token) ==
    LET content == toLowerCase(text)
        target  == toLowerCase(token.value)
    IN  IF token.type = "phrase" THEN includes(content, target)
        ELSE includes(content, target)

\* checkField with the sort keys among the fields of a token without field
checkFieldWithSortKeys(book, token) ==
    CASE token.field = <<"t","i","t","l","e">> ->
            checkValue(book.title, token) \/ checkValue(book.title_sort, token)
      [] token.field = <<"a","u","t","h","o","r">> ->
            checkValue(book.authors, token) \/ checkValue(book.author_sort, token)
      [] token.field = <<"t","a","g">> ->
            \E i \in 1..Len(book.tags) : checkValue(book.tags[i], token)
      [] token.field = <<"p","u","b","l","i","s","h","e","r">> ->
            checkValue(book.publisher, token)
      [] OTHER ->
            \/ checkValue(book.title, token) \/ checkValue(book.title_sort, token)
            \/ checkValue(book.authors, token) \/ checkValue(book.author_sort, token)
            \/ \E i \in 1..Len(book.tags) : checkValue(book.tags[i], token)
            \/ checkValue(book.publisher, token)

checkField(book, token) ==
    CASE token.field = <<"t","i","t","l","e">> ->
            checkValue(book.title, token) \/ checkValue(book.title_sort, token)
      [] token.field = <<"a","u","t","h","o","r">> ->
            checkValue(book.authors, token) \/ checkValue(book.author_sort, token)
      [] token.field = <<"t","a","g">> ->
            \E i \in 1..Len(book.tags) : checkValue(book.tags[i], token)
      [] token.field = <<"p","u","b","l","i","s","h","e","r">> ->
            checkValue(book.publisher, token)
      [] OTHER ->
            \/ checkValue(book.title, token)
            \/ checkValue(book.authors, token)
            \/ \E i \in 1..Len(book.tags) : checkValue(book.tags[i], token)
            \/ checkValue(book.publisher, token)

\* matchToken returning the result of checkField whatever the flag
matchTokenUninverted(book, token) == checkField(book, token)

matchToken(book, token) ==
    IF token.negated THEN ~checkField(book, token) ELSE checkField(book, token)

\* the forEach with a NOT operator negating the token that follows it
RECURSIVE splitByOrNegatingAfterNot(_, _, _, _)
splitByOrNegatingAfterNot(tokens, i, orGroups, currentGroup) ==
    IF i > Len(tokens) THEN [orGroups |-> orGroups, currentGroup |-> currentGroup]
    ELSE LET token == tokens[i]
         IN  IF token.type = "operator" /\ token.value = OR
             THEN splitByOrNegatingAfterNot(tokens, i + 1,
                            IF Len(currentGroup) > 0
                            THEN Append(orGroups, currentGroup) ELSE orGroups,
                            <<>>)
             ELSE IF token.type = "operator"
             THEN splitByOrNegatingAfterNot(tokens, i + 1, orGroups, currentGroup)
             ELSE IF i > 1 /\ tokens[i - 1].type = "operator" /\ tokens[i - 1].value = NOT
             THEN splitByOrNegatingAfterNot(tokens, i + 1, orGroups,
                            Append(currentGroup, [token EXCEPT !.negated = ~token.negated]))
             ELSE splitByOrNegatingAfterNot(tokens, i + 1, orGroups,
                            Append(currentGroup, token))

\* the forEach over the tokens: orGroups and currentGroup after the
\* tokens from index i on have been visited
RECURSIVE splitByOr(_, _, _, _)
splitByOr(tokens, i, orGroups, currentGroup) ==
    IF i > Len(tokens) THEN [orGroups |-> orGroups, currentGroup |-> currentGroup]
    ELSE LET token == tokens[i]
         IN  IF token.type = "operator" /\ token.value = OR
             THEN splitByOr(tokens, i + 1,
                            IF Len(currentGroup) > 0
                            THEN Append(orGroups, currentGroup) ELSE orGroups,
                            <<>>)
             ELSE IF token.type = "operator" /\ token.value = AND
             THEN splitByOr(tokens, i + 1, orGroups, currentGroup)
             ELSE IF token.type = "operator" /\ token.value = NOT
             THEN splitByOr(tokens, i + 1, orGroups, currentGroup)
             ELSE splitByOr(tokens, i + 1, orGroups, Append(currentGroup, token))

\* a group taken to match as soon as one of its tokens does
matchesSomeToken(book, group) ==
    \E i \in 1..Len(group) : matchToken(book, group[i])

matchesGroup(book, group) ==
    \A i \in 1..Len(group) : matchToken(book, group[i])

\* the push that follows the forEach done for an empty currentGroup too
groupsOfPushingAlways(split) == Append(split.orGroups, split.currentGroup)

\* orGroups after the push that follows the forEach (line 119)
groupsOf(split) ==
    IF Len(split.currentGroup) > 0
    THEN Append(split.orGroups, split.currentGroup)
    ELSE split.orGroups

\* lines 88-136 of advancedSearch, on the parsed tokens
searchTokens(book, tokens) ==
    IF Len(tokens) = 0 THEN TRUE
    ELSE \E group \in elements(groupsOf(splitByOr(tokens, 1, <<>>, <<>>))) :
            matchesGroup(book, group)

\* advancedSearch without its early returns (lines 86 and 89)
searchWithoutReturns(book, query) ==
    \E group \in elements(groupsOf(splitByOr(parseQuery(query), 1, <<>>, <<>>))) :
        matchesGroup(book, group)

advancedSearch(book, query) ==
    IF trim(query) = <<>> THEN TRUE ELSE searchTokens(book, parseQuery(query))

-----------------------------------------------------------------------------
(* JavaScript numbers, dates and collation, as far as the sort uses them *)

\* a Number: NaN, or an integer value
NaN == [isNaN |-> TRUE, value |-> 0]

Num(n) == [isNaN |-> FALSE, value |-> n]

\* a - b on Numbers
Minus(a, b) == IF a.isNaN \/ b.isNaN THEN NaN ELSE Num(a.value - b.value)

Digits == <<"0","1","2","3","4","5","6","7","8","9">>

digitIndex == indexIn(Digits)

isDigit(c) == c \in DOMAIN digitIndex

digitValue(c) == digitIndex[c] - 1

\* the number of days from 1970-01-01 to the civil date y-m-d
daysFromCivil(y, m, d) ==
    LET yy  == IF m <= 2 THEN y - 1 ELSE y
        era == yy \div 400
        yoe == yy - era * 400
        mp  == IF m > 2 THEN m - 3 ELSE m + 9
        doy == (153 * mp + 2) \div 5 + d - 1
        doe == yoe * 365 + yoe \div 4 - yoe \div 100 + doy
    IN  era * 146097 + doe - 719468

\* new Date(timestamp).getTime() for the date-only ISO form YYYY-MM-DD, and NaN
\* for a string that is no date. The unit is the day (86 400 000 ms): the
\* comparators use only the sign of a difference of two such values.
getTime(timestamp) ==
    IF /\ Len(timestamp) = 10
       /\ \A i \in {1, 2, 3, 4, 6, 7, 9, 10} : isDigit(timestamp[i])
       /\ timestamp[5] = "-" /\ timestamp[8] = "-"
    THEN LET y == 1000 * digitValue(timestamp[1]) + 100 * digitValue(timestamp[2])
                  + 10 * digitValue(timestamp[3]) + digitValue(timestamp[4])
             m == 10 * digitValue(timestamp[6]) + digitValue(timestamp[7])
             d == 10 * digitValue(timestamp[9]) + digitValue(timestamp[10])
             leap == y % 4 = 0 /\ (y % 100 # 0 \/ y % 400 = 0)
             last == IF m = 2 THEN (IF leap THEN 29 ELSE 28)
                     ELSE IF m \in {4, 6, 9, 11} THEN 30 ELSE 31
         IN  IF m \in 1..12 /\ d \in 1..last THEN Num(daysFromCivil(y, m, d)) ELSE NaN
    ELSE NaN

\* the collation order of the characters of the model: white space, then
\* punctuation, then digits, then letters
Collation == <<"\t", "\n", " ", "-", ",", ":", "\"", "&">> \o Digits \o LowerCase

collationIndex == indexIn(Collation)

collationRank(c) == collationIndex[toLowerChar(c)]

\* the rank of the case of a character: lower case first
caseRank(c) == IF toLowerChar(c) = c THEN 0 ELSE 1

collationRanks(a) == [i \in 1..Len(a) |-> collationRank(a[i])]

caseRanks(a) == [i \in 1..Len(a) |-> caseRank(a[i])]

\* the comparison of two sequences of ranks: by the first index at which
\* they differ, a proper prefix first
compareRanks(x, y) ==
    IF \E i \in 1..Len(x) : i <= Len(y) /\ x[i] # y[i]
    THEN IF \E i \in 1..Len(x) : /\ i <= Len(y)
                                 /\ x[i] < y[i]
                                 /\ \A j \in 1..(i - 1) : x[j] = y[j]
         THEN -1 ELSE 1
    ELSE IF Len(x) < Len(y) THEN -1
    ELSE IF Len(x) > Len(y) THEN 1
    ELSE 0

\* the second comparison if the first finds no difference
thenBy(first, second) == IF first # 0 THEN first ELSE second

\* String.prototype.localeCompare: letters compare without regard to case
\* first; between strings equal up to case, lower case sorts first
localeCompare(a, b) ==
    thenBy(compareRanks(collationRanks(a), collationRanks(b)),
           compareRanks(caseRanks(a), caseRanks(b)))

\* a || b on strings: the empty string is falsy
orElse(a, b) == IF a # <<>> THEN a ELSE b

-----------------------------------------------------------------------------
(* Array.prototype.sort *)

dateNewest == "date-newest"

dateOldest == "date-oldest"

titleAsc == "title-asc"

authorAsc == "author-asc"

SortOptions == {dateNewest, dateOldest, titleAsc, authorAsc}

\* the comparator of BookBrowser.tsx:90-103
compareBooks(a, b, by) ==
    CASE by = dateNewest -> Minus(getTime(b.timestamp), getTime(a.timestamp))
      [] by = dateOldest -> Minus(getTime(a.timestamp), getTime(b.timestamp))
      [] by = titleAsc ->
            Num(localeCompare(orElse(a.title_sort, a.title), orElse(b.title_sort, b.title)))
      [] by = authorAsc ->
            Num(localeCompare(orElse(a.author_sort, a.authors),
                              orElse(b.author_sort, b.authors)))
      [] OTHER -> Num(0)

\* SortCompare of ECMAScript: a comparator result of NaN counts as +0
nanToZero(v) == IF v.isNaN THEN 0 ELSE v.value

\* a comparator result of NaN taken for a positive number
SortCompareNaNPositive(a, b, by) ==
    IF compareBooks(a, b, by).isNaN THEN 1 ELSE compareBooks(a, b, by).value

SortCompare(a, b, by) == nanToZero(compareBooks(a, b, by))

\* arr with x placed at index at (1-based), the rest shifted right
insertAt(arr, at, x) == SubSeq(arr, 1, at - 1) \o <<x>> \o SubSeq(arr, at, Len(arr))

reverse(arr) == [i \in 1..Len(arr) |-> arr[Len(arr) + 1 - i]]

\* straight insertion: x moves left past every element that sorts after it
RECURSIVE insertionPoint(_, _, _, _)
insertionPoint(sorted, j, x, by) ==
    IF j >= 1 /\ SortCompare(sorted[j], x, by) > 0
    THEN insertionPoint(sorted, j - 1, x, by)
    ELSE j + 1

RECURSIVE insertionSortFrom(_, _, _)
insertionSortFrom(arr, i, by) ==
    IF i > Len(arr) THEN arr
    ELSE LET sorted == SubSeq(arr, 1, i - 1)
             at == insertionPoint(sorted, i - 1, arr[i], by)
         IN  insertionSortFrom(insertAt(sorted, at, arr[i])
                                   \o SubSeq(arr, i + 1, Len(arr)), i + 1, by)

insertionSort(arr, by) == insertionSortFrom(arr, 2, by)

\* binary insertion: the place of the pivot is found by bisection of [left, right)
RECURSIVE bisect(_, _, _, _, _)
bisect(arr, left, right, pivot, by) ==
    IF left >= right THEN left
    ELSE LET mid == left + ((right - left) \div 2)
         IN  IF SortCompare(pivot, arr[mid], by) < 0
             THEN bisect(arr, left, mid, pivot, by)
             ELSE bisect(arr, mid + 1, right, pivot, by)

RECURSIVE binaryInsertionFrom(_, _, _)
binaryInsertionFrom(arr, start, by) ==
    IF start > Len(arr) THEN arr
    ELSE LET at == bisect(arr, 1, start, arr[start], by)
         IN  binaryInsertionFrom(insertAt(SubSeq(arr, 1, start - 1), at, arr[start])
                                     \o SubSeq(arr, start + 1, Len(arr)), start + 1, by)

\* the length of the run that starts the array: strictly descending, or
\* non-descending
RECURSIVE runEnd(_, _, _, _)
runEnd(arr, i, descending, by) ==
    IF i > Len(arr) THEN i - 1
    ELSE LET order == SortCompare(arr[i], arr[i - 1], by)
         IN  IF (descending /\ order >= 0) \/ (~descending /\ order < 0) THEN i - 1
             ELSE runEnd(arr, i + 1, descending, by)

\* the array with its leading run [1, n] made ascending and the rest
\* inserted by bisection
insertAfterRun(arr, n, descending, by) ==
    binaryInsertionFrom((IF descending THEN reverse(SubSeq(arr, 1, n))
                         ELSE SubSeq(arr, 1, n)) \o SubSeq(arr, n + 1, Len(arr)),
                        n + 1, by)

withRun(arr, descending, by) ==
    insertAfterRun(arr, runEnd(arr, 3, descending, by), descending, by)

\* the sort of an array too short to be merged
runInsertionSort(arr, by) ==
    IF Len(arr) < 2 THEN arr
    ELSE withRun(arr, SortCompare(arr[2], arr[1], by) < 0, by)

\* The sort is stable (ECMAScript 2019); with a comparator that is no
\* consistent ordering the result depends on the algorithm of the engine.
Engines == {"insertion", "run-insertion"}

sort(arr, by, eng) ==
    IF eng = "insertion" THEN insertionSort(arr, by) ELSE runInsertionSort(arr, by)

-----------------------------------------------------------------------------
(* src/components/BookBrowser.tsx: facets, pipeline, pagination *)

ITEMS_PER_PAGE == 24

all == <<"a","l","l">>

\* the format facet: every format of every book, trimmed and lower-cased
formats(books) ==
    UNION {{toLowerCase(trim(f)) : f \in elements(books[i].formats)} :
              i \in 1..Len(books)}

\* the names of the tag facet: every tag of every book, trimmed, if not empty
tagNames(books) ==
    UNION {{trim(t) : t \in elements(books[i].tags)} : i \in 1..Len(books)} \ {<<>>}

\* stage 1 of processedBooks
searchStage(book, query) == advancedSearch(book, query)

\* the format compared as it is written in the record
formatStageExact(book, format) ==
    \E i \in 1..Len(book.formats) : book.formats[i] = format

\* stage 2 of processedBooks
formatStage(book, format) ==
    \E i \in 1..Len(book.formats) : toLowerCase(book.formats[i]) = format

\* the tag compared as it is written in the record
hasTagUntrimmed(book, selectedTag) ==
    \E i \in 1..Len(book.tags) : book.tags[i] = selectedTag

hasTag(book, selectedTag) ==
    \E i \in 1..Len(book.tags) : trim(book.tags[i]) = selectedTag

\* stage 3 of processedBooks
tagStage(book, tags, logic) ==
    IF logic = "AND"
    THEN \A i \in 1..Len(tags) : hasTag(book, tags[i])
    ELSE \E i \in 1..Len(tags) : hasTag(book, tags[i])

\* `filtered` is still the books array itself when no stage has filtered it
aliasesBooks(query, format, tags) ==
    trim(query) = <<>> /\ format = all /\ Len(tags) = 0

\* the stages without the free-text one
filterWithoutSearch(books, query, format, tags, logic) ==
    LET keep(book) ==
            /\ format # all => formatStage(book, format)
            /\ Len(tags) > 0 => tagStage(book, tags, logic)
    IN  SelectSeq(books, keep)

\* the records that reach the sort, as an array
filterStages(books, query, format, tags, logic) ==
    LET keep(book) ==
            /\ trim(query) # <<>> => searchStage(book, query)
            /\ format # all => formatStage(book, format)
            /\ Len(tags) > 0 => tagStage(book, tags, logic)
    IN  SelectSeq(books, keep)

\* the value of the useMemo and the books array after it, given the sorted
\* array: Array.prototype.sort sorts the array it is called on in place
afterSort(books, sorted, aliased) ==
    [result |-> sorted, books |-> IF aliased THEN sorted ELSE books]

\* the useMemo of processedBooks: its value, and the books array after it
processBooks(books, query, format, tags, logic, by, eng) ==
    afterSort(books, sort(filterStages(books, query, format, tags, logic), by, eng),
              aliasesBooks(query, format, tags))

\* Math.ceil(count / size)
ceilDiv(count, size) ==
    IF count % size = 0 THEN count \div size ELSE count \div size + 1

totalPagesOf(books) == ceilDiv(Len(books), ITEMS_PER_PAGE)

\* Array.prototype.slice(start, end) for start, end >= 0 (0-based, end excluded)
slice(arr, start, end) ==
    LET to == IF end > Len(arr) THEN Len(arr) ELSE end
    IN  IF start >= to THEN <<>> ELSE SubSeq(arr, start + 1, to)

\* the slice of a page counted from 0
paginatedFromZero(books, page) ==
    slice(books, page * ITEMS_PER_PAGE, (page + 1) * ITEMS_PER_PAGE)

paginatedBooksOf(books, page) ==
    slice(books, (page - 1) * ITEMS_PER_PAGE, page * ITEMS_PER_PAGE)

\* the effect that resets the page, were tagLogic among its dependencies
pageDepsWithLogic(queryChanged, formatChanged, tagsChanged, logicChanged, byChanged) ==
    queryChanged \/ formatChanged \/ tagsChanged \/ logicChanged \/ byChanged

\* the dependency list of the effect that resets the page (lines 113-115):
\* TRUE iff one of them differs from the previous render
pageDepsChanged(queryChanged, formatChanged, tagsChanged, logicChanged, byChanged) ==
    queryChanged \/ formatChanged \/ tagsChanged \/ byChanged

\* the dependency list of the useMemo of processedBooks (line 104), the
\* books array aside
memoDepsChanged(queryChanged, formatChanged, tagsChanged, logicChanged, byChanged) ==
    queryChanged \/ formatChanged \/ tagsChanged \/ logicChanged \/ byChanged

-----------------------------------------------------------------------------
(* src/components/Dashboard.tsx: the statistics *)

\* the parts of text after the separator at index i
RECURSIVE split(_, _)
splitAt(text, sep, i) ==
    <<SubSeq(text, 1, i - 1)>> \o split(SubSeq(text, i + 1, Len(text)), sep)

\* String.prototype.split on a separator of one character
split(text, sep) ==
    IF \A i \in 1..Len(text) : text[i] # sep THEN <<text>>
    ELSE splitAt(text, sep, least({i \in 1..Len(text) : text[i] = sep}))

nonEmpty(text) == text # <<>>

trimAll(texts) == [i \in 1..Len(texts) |-> trim(texts[i])]

Unknown == <<"U","n","k","n","o","w","n">>

\* the keys of one book, the empty segments of authors kept
keysOfWithEmpty(book, counted) ==
    CASE counted = "authors" -> trimAll(split(book.authors, "&"))
      [] counted = "languages" ->
            IF book.languages # <<>> THEN trimAll(split(book.languages, ","))
            ELSE <<Unknown>>
      [] counted = "formats" ->
            [i \in 1..Len(book.formats) |-> toLowerCase(trim(book.formats[i]))]
      [] counted = "tags" ->
            SelectSeq(trimAll(book.tags), nonEmpty)

\* the keys one book adds to authorCounts, langCounts, formatCounts and
\* tagCounts, in the order of the forEach loops (lines 23-50)
keysOf(book, counted) ==
    CASE counted = "authors" ->
            SelectSeq(trimAll(split(book.authors, "&")), nonEmpty)
      [] counted = "languages" ->
            IF book.languages # <<>> THEN trimAll(split(book.languages, ","))
            ELSE <<Unknown>>
      [] counted = "formats" ->
            [i \in 1..Len(book.formats) |-> toLowerCase(trim(book.formats[i]))]
      [] counted = "tags" ->
            SelectSeq(trimAll(book.tags), nonEmpty)

\* counts[key] = (counts[key] || 0) + 1 on a Record<string, number>, kept as
\* its properties in the order of their creation
increment(counts, key) ==
    IF \E i \in 1..Len(counts) : counts[i].name = key
    THEN [i \in 1..Len(counts) |->
             IF counts[i].name = key
             THEN [name |-> key, value |-> counts[i].value + 1] ELSE counts[i]]
    ELSE Append(counts, [name |-> key, value |-> 1])

\* the counts after the keys from index i on have been counted
RECURSIVE incrementAll(_, _, _)
incrementAll(counts, keys, i) ==
    IF i > Len(keys) THEN counts
    ELSE incrementAll(increment(counts, keys[i]), keys, i + 1)

\* the counts after books.forEach from book i on (lines 21-51)
RECURSIVE countFrom(_, _, _, _)
countFrom(counts, books, i, counted) ==
    IF i > Len(books) THEN counts
    ELSE countFrom(incrementAll(counts, keysOf(books[i], counted), 1),
                   books, i + 1, counted)

\* the decimal digits a, of the same length as b, are before b
digitsBefore(a, b) ==
    \E i \in 1..Len(a) :
        /\ digitValue(a[i]) < digitValue(b[i])
        /\ \A j \in 1..(i - 1) : a[j] = b[j]

\* the largest array index, 2^32 - 2
MaxArrayIndex == <<"4","2","9","4","9","6","7","2","9","4">>

\* the property key is an array index: the canonical decimal form of an
\* integer from 0 to 2^32 - 2
isArrayIndex(key) ==
    /\ Len(key) > 0
    /\ \A i \in 1..Len(key) : isDigit(key[i])
    /\ Len(key) = 1 \/ key[1] # "0"
    /\ \/ Len(key) < Len(MaxArrayIndex)
       \/ Len(key) = Len(MaxArrayIndex)
            /\ (key = MaxArrayIndex \/ digitsBefore(key, MaxArrayIndex))

isIndexEntry(entry) == isArrayIndex(entry.name)

isStringEntry(entry) == ~isArrayIndex(entry.name)

\* the array index a is less than the array index b
indexBefore(a, b) ==
    \/ Len(a) < Len(b)
    \/ Len(a) = Len(b) /\ digitsBefore(a, b)

\* the entries whose keys are array indices, in ascending order of index
RECURSIVE ascending(_, _, _)
ascending(sorted, entries, i) ==
    IF i > Len(entries) THEN sorted
    ELSE ascending(
            SelectSeq(sorted, LAMBDA e : indexBefore(e.name, entries[i].name))
                \o <<entries[i]>>
                \o SelectSeq(sorted, LAMBDA e : indexBefore(entries[i].name, e.name)),
            entries, i + 1)

\* Object.entries: the array indices in ascending order, then the other keys
\* in the order of their creation
objectEntries(counts) ==
    ascending(<<>>, SelectSeq(counts, isIndexEntry), 1)
        \o SelectSeq(counts, isStringEntry)

\* sort((a, b) => b[1] - a[1]), which is stable: the entries from index i on
\* each inserted after the entries whose count is not less
RECURSIVE sortByCount(_, _, _)
sortByCount(sorted, entries, i) ==
    IF i > Len(entries) THEN sorted
    ELSE sortByCount(
            SelectSeq(sorted, LAMBDA e : e.value >= entries[i].value)
                \o <<entries[i]>>
                \o SelectSeq(sorted, LAMBDA e : e.value < entries[i].value),
            entries, i + 1)

\* Object.entries(counts).sort(...).slice(0, n)
top(counts, n) == slice(sortByCount(<<>>, objectEntries(counts), 1), 0, n)

\* sizeScale, 0.85 + (value / maxTagCount) * 1.5, as the fraction it
\* approximates
sizeScale(value, maxTagCount) ==
    [numerator |-> 85 * maxTagCount + 150 * value, denominator |-> 100 * maxTagCount]

\* topTags of topTagsList (lines 73-79)
scaled(topTagsList, maxTagCount) ==
    [i \in 1..Len(topTagsList) |->
        [name |-> topTagsList[i].name, value |-> topTagsList[i].value,
         sizeScale |-> sizeScale(topTagsList[i].value, maxTagCount)]]

topTagsOf(topTagsList) ==
    scaled(topTagsList, IF Len(topTagsList) > 0 THEN topTagsList[1].value ELSE 1)

\* the useMemo of stats
stats(books) ==
    [totalBooks |-> Len(books),
     totalAuthors |-> Len(countFrom(<<>>, books, 1, "authors")),
     topLanguages |-> top(countFrom(<<>>, books, 1, "languages"), 5),
     topFormats |-> top(countFrom(<<>>, books, 1, "formats"), 5),
     topAuthors |-> top(countFrom(<<>>, books, 1, "authors"), 10),
     topTags |-> topTagsOf(top(countFrom(<<>>, books, 1, "tags"), 60))]

-----------------------------------------------------------------------------
(* src/components/LibraryLoader.tsx: processFile *)

\* the values of JavaScript that JSON.parse returns, and undefined: text is
\* the digits of a number, the characters of a string, true or false; items
\* is the elements of an array, or the properties title and books of an
\* object (undefined when absent)
JSValue(kind, text, items) == [kind |-> kind, text |-> text, items |-> items]

JSUndefined == JSValue("undefined", <<>>, <<>>)

JSNull == JSValue("null", <<>>, <<>>)

JSNumber(digits) == JSValue("number", digits, <<>>)

JSString(chars) == JSValue("string", chars, <<>>)

JSBoolean(word) == JSValue("boolean", <<word>>, <<>>)

JSArray(items) == JSValue("array", <<>>, items)

JSObject(title, books) == JSValue("object", <<>>, <<title, books>>)

\* ToBoolean
truthy(v) ==
    CASE v.kind \in {"undefined", "null"} -> FALSE
      [] v.kind = "number" -> v.text # <<"0">>
      [] v.kind = "string" -> v.text # <<>>
      [] v.kind = "boolean" -> v.text = <<"true">>
      [] OTHER -> TRUE

\* reading a property of null or undefined throws a TypeError
memberThrows(v) == v.kind \in {"undefined", "null"}

\* v.title
titleOf(v) == IF v.kind = "object" THEN v.items[1] ELSE JSUndefined

\* v.books
booksOf(v) == IF v.kind = "object" THEN v.items[2] ELSE JSUndefined

\* the try block has thrown: the catch and finally blocks have run
Thrown == [loaded |-> FALSE, books |-> <<>>]

\* onLoaded({ books: booksData }) has been called
OnLoaded(booksData) == [loaded |-> TRUE, books |-> booksData]

\* lines 102-106 of reader.onload
checkFirst(booksData) ==
    IF Len(booksData) > 0 /\ memberThrows(booksData[1]) THEN Thrown
    ELSE IF Len(booksData) > 0 /\ ~truthy(titleOf(booksData[1])) THEN Thrown
    ELSE OnLoaded(booksData)

\* lines 93-106 of reader.onload, on the parsed document
checkShape(json) ==
    IF json.kind = "array" THEN checkFirst(json.items)
    ELSE IF memberThrows(json) THEN Thrown
    ELSE IF truthy(booksOf(json)) /\ booksOf(json).kind = "array"
    THEN checkFirst(booksOf(json).items)
    ELSE Thrown

\* the try block of reader.onload (lines 87-106) on the text of the file
tryParse(file) == IF ~file.parses THEN Thrown ELSE checkShape(file.json)

-----------------------------------------------------------------------------
(* The libraries and the inputs of the user *)

Book(id, title, title_sort, authors, author_sort, publisher, timestamp, tags, fmts) ==
    [id |-> id, title |-> title, title_sort |-> title_sort, authors |-> authors,
     author_sort |-> author_sort, publisher |-> publisher, timestamp |-> timestamp,
     tags |-> tags, formats |-> fmts, languages |-> <<"e","n","g">>]

epub == <<"e","p","u","b">>

pdf == <<"p","d","f">>

tagX == <<"x">>

tagY == <<"y","z">>

date2020 == <<"2","0","2","0","-","0","1","-","0","1">>

date2021 == <<"2","0","2","1","-","0","3","-","0","1">>

date2022 == <<"2","0","2","2","-","0","6","-","0","1">>

\* the records of the small libraries: two share a timestamp, one has a
\* timestamp that is no date, one has tags and formats with surrounding
\* white space or in upper case, one is in another language
Pool ==
    { Book(1, <<"a","b">>, <<"a","b">>, <<"c">>, <<"c">>, <<"p">>,
           date2020, <<tagX>>, <<epub>>),
      Book(2, <<"B","a">>, <<>>, <<"d"," ","&"," ","c">>, <<"d">>, <<>>,
           date2022, <<<<" ","x"," ">>, tagY>>, <<<<"E","P","U","B">>, pdf>>),
      Book(3, <<"b">>, <<"b">>, <<"e">>, <<>>, <<"q">>,
           date2021, <<tagY>>, <<pdf>>),
      [Book(4, <<"a"," ","b">>, <<"b",","," ","a">>, <<"c">>, <<"c">>, <<"p">>,
            <<"n","/","a">>, <<tagX>>, <<<<" ","e","p","u","b">>>>)
          EXCEPT !.languages = <<"f","r","a">>],
      Book(5, <<"A","b">>, <<"a","b">>, <<"d">>, <<"d">>, <<>>,
           date2020, <<tagX, tagY>>, <<epub>>) }

\* the arrays of n distinct records of a pool
RECURSIVE arraysOfLength(_, _)
arraysOfLength(pool, n) ==
    IF n = 0 THEN {<<>>}
    ELSE UNION {{Append(a, b) : b \in pool \ elements(a)} :
                   a \in arraysOfLength(pool, n - 1)}

arraysUpTo(pool, n) == UNION {arraysOfLength(pool, k) : k \in 0..n}

twoDigits(n) == <<Digits[(n \div 10) + 1], Digits[(n % 10) + 1]>>

\* record i of the library used for pagination: every second record has
\* tag x and every third has tag yz, so 33 records have either tag and 8 have
\* both; the timestamps repeat every 28 records
PagedBook(i) ==
    Book(i, <<"b">> \o twoDigits(i), <<>>, <<"c">>, <<>>, <<>>,
         <<"2","0","2","0","-","0","1","-">> \o twoDigits((i % 28) + 1),
         (IF i % 2 = 0 THEN <<tagX>> ELSE <<>>) \o (IF i % 3 = 0 THEN <<tagY>> ELSE <<>>),
         <<epub>>)

PagedLibrary == [i \in 1..MaxCount |-> PagedBook(i)]

\* the library files the user can load
\* the records of the small libraries: the first MaxBooks of this order
ShelfOrder == <<2, 4, 1, 3, 5>>

Shelf == {b \in Pool : \E i \in 1..Len(ShelfOrder) : i <= MaxBooks /\ b.id = ShelfOrder[i]}

\* the records of the library whose tag names read as search language: a
\* name with a space, one with a leading -, one that is the word not, one
\* with a field: prefix
TaggedLibrary ==
    << Book(1, <<"a">>, <<>>, <<"c">>, <<>>, <<>>, date2020, <<<<"s"," ","f">>>>, <<epub>>),
       Book(2, <<"b">>, <<>>, <<"c">>, <<>>, <<>>, date2021, <<<<"-","x">>>>, <<epub>>),
       Book(3, <<"d">>, <<>>, <<"c">>, <<>>, <<>>, date2022, <<<<"n","o","t">>>>, <<pdf>>),
       Book(4, <<"e">>, <<>>, <<"c">>, <<>>, <<>>, date2020,
            <<<<"t","i","t","l","e",":","z">>>>, <<epub>>) >>

Libraries(c) ==
    CASE c = "paged" -> {PagedLibrary}
      [] c = "tagged" -> {TaggedLibrary}
      [] OTHER -> arraysUpTo(Shelf, MaxBooks)

\* the texts the user types into the search box
Queries(c) ==
    CASE c = "paged" -> { <<>>, <<"t","a","g",":","x">> }
      [] c = "tagged" -> { <<>>, <<"a">> }
      [] OTHER -> { <<>>, <<"q"," ","O","R"," ","-","b","a">> }

\* the words of the queries given to advancedSearch on its own
Words ==
    { <<"b">>, <<"-","c">>, <<"O","R">>, <<"o","r">>, <<"A","N","D">>,
      <<"N","O","T">>, <<"t","a","g",":","x">>, <<"T","I","T","L","E",":","b">>,
      <<Quote,"a"," ","b",Quote>>, <<"q">> }

\* the queries of n words joined by single spaces
RECURSIVE joined(_)
joined(n) ==
    IF n = 1 THEN Words
    ELSE {q \o <<" ">> \o w : q \in joined(n - 1), w \in Words}

\* the query b AND q OR tag:x, of the form a AND b OR c
AndOrQuery ==
    <<"b"," ","A","N","D"," ","q"," ","O","R"," ","t","a","g",":","x">>

\* queries of the form tag:X: tag:YZ, tag:z and tag:not
TagQueries ==
    { <<"t","a","g",":","Y","Z">>, <<"t","a","g",":","z">>,
      <<"t","a","g",":","n","o","t">> }

\* the queries given to advancedSearch on its own: the blank ones, up to
\* MaxWords words, a AND b OR c, and the queries of the form tag:X
SearchQueries ==
    {<<>>, <<" ">>, <<"\t"," ">>, AndOrQuery} \cup UNION {joined(n) : n \in 1..MaxWords}
        \cup TagQueries

\* the words of the queries given to parseQuery and matchToken on their own:
\* terms, a phrase, the keywords bare, in a field and quoted, the field
\* prefixes in either case, and partial field syntax
TokenWords ==
    { <<"b">>, <<"-","c">>, <<"X">>, <<"p">>, <<"b",",">>,
      <<Quote,"a"," ","b",Quote>>,
      <<"O","R">>, <<"a","n","d">>, <<"N","O","T">>, <<"-","o","r">>,
      <<"t","a","g",":","x">>, <<"-","t","a","g",":","x">>,
      <<"T","I","T","L","E",":","c">>, <<"T","a","g",":","p">>,
      <<"a","u","t","h","o","r",":","D">>,
      <<"p","u","b","l","i","s","h","e","r",":","q">>,
      <<"t","i","t","l","e",":",Quote,"a"," ","b",Quote>>,
      <<"t","i","t","l","e",":","o","r">>, <<Quote,"a","n","d",Quote>>,
      <<Quote,"n","o","t",Quote>>, <<"t","a","g",":","n","o","t">>,
      <<"t","a","g",":">>, <<"f","o","o",":","b","a","r">>, <<Quote,"a">> }

\* the lists of n of these words
RECURSIVE wordLists(_)
wordLists(n) ==
    IF n = 0 THEN {<<>>}
    ELSE {Append(ws, w) : ws \in wordLists(n - 1), w \in TokenWords}

\* the query made of the words joined by single spaces
RECURSIVE joinWords(_)
joinWords(ws) ==
    IF Len(ws) = 0 THEN <<>>
    ELSE IF Len(ws) = 1 THEN ws[1]
    ELSE ws[1] \o <<" ">> \o joinWords(Tail(ws))

\* the queries given to parseQuery on its own, as the lists of their words:
\* up to MaxTokens words
TokenQueries == UNION {wordLists(n) : n \in 1..MaxTokens}

\* a record as the Dashboard reads it
Counted(id, authors, languages, tags, fmts) ==
    [Book(id, <<"t">>, <<"t">>, authors, <<>>, <<>>, date2020, tags, fmts)
        EXCEPT !.languages = languages]

\* the records of the libraries given to the Dashboard on its own: authors
\* joined by &, authors that differ in letter case only, several languages
\* or none, keys that repeat, keys that are numbers, more formats than the
\* list of formats shows
CountedPool ==
    { Counted(1, <<"d"," ","&"," ","c">>, <<"f","r",",","e","n">>,
              <<<<"b">>, <<"1","0">>, <<"2">>>>, <<<<"E","P","U","B">>, pdf>>),
      Counted(2, <<"C">>, <<"e","n">>, <<<<"2">>>>, <<<<" ","e","p","u","b">>>>),
      Counted(3, <<" ","&"," ","e","&">>, <<>>, <<<<" ">>, <<"0","7">>>>, <<>>),
      Counted(4, <<"7"," ","&","d">>, <<"e","n",","," ","f","r">>, <<tagX, <<"b">>>>,
              <<<<"f","1">>, <<"f","2">>, <<"f","3">>, <<"f","4">>, <<"f","5">>,
                <<"f","6">>>>),
      Counted(5, <<"c","&","c">>, <<"d","e">>, <<<<"1","0">>, tagX>>, <<pdf>>) }

\* the libraries given to the Dashboard on its own
CountedLibraries == arraysUpTo(CountedPool, MaxCounted)

\* the titles of the elements of a document: absent, null, the empty string,
\* a string, numbers, a boolean
Titles ==
    { JSUndefined, JSNull, JSString(<<>>), JSString(<<"t">>), JSNumber(<<"0">>),
      JSNumber(<<"4","2">>), JSBoolean("true") }

\* the elements of the arrays of a document: objects, null, a number, a string
Elements ==
    {JSObject(title, JSUndefined) : title \in Titles}
        \cup {JSNull, JSNumber(<<"5">>), JSString(<<"s">>)}

RECURSIVE itemsOfLength(_)
itemsOfLength(n) ==
    IF n = 0 THEN {<<>>}
    ELSE {Append(items, e) : items \in itemsOfLength(n - 1), e \in Elements}

Arrays == {JSArray(items) : items \in UNION {itemsOfLength(n) : n \in 0..MaxItems}}

\* a file whose text is JSON, and a file whose text is not
Parsable(json) == [parses |-> TRUE, json |-> json]

Unparsable == [parses |-> FALSE, json |-> JSUndefined]

\* the files the user drops on the loader: text that is not JSON, values that
\* are no array and no object, arrays, objects with and without a books array
Files ==
    {Unparsable}
        \cup {Parsable(json) : json \in {JSNull, JSNumber(<<"5">>), JSString(<<"s">>),
                                        JSBoolean("true")}}
        \cup {Parsable(json) : json \in Arrays}
        \cup {Parsable(JSObject(JSUndefined, books)) :
                  books \in Arrays \cup {JSUndefined, JSNull, JSString(<<"s">>)}}

\* the orders the user chooses in the sort select
SortChoices(c) == IF c \in {"paged", "tagged"} THEN {dateNewest, titleAsc} ELSE SortOptions

-----------------------------------------------------------------------------
(* The state after construction *)

\* library === null
NoLibrary == [isNull |-> TRUE, books |-> <<>>]

Loaded(data) == [isNull |-> FALSE, books |-> data]

\* selectedBook === null
NoBook == <<>>

\* the BookBrowser is rendered (App.tsx:26-39)
Mounted == ~library.isNull /\ activeTab = "browser"

\* the handlers whose name the history keeps: the history serves the
\* statements about the page, which the library of many pages decides
Recorded == IF corpus = "paged" THEN {"ToggleTagLogic"} ELSE {}

\* the history of one step: the handler, and the page before it ran
Event(name) == [name |-> IF name \in Recorded THEN name ELSE "other",
                page |-> currentPage]

\* the browser state of a BookBrowser that is not rendered
BrowserGone ==
    /\ searchQuery' = <<>>
    /\ selectedFormat' = all
    /\ selectedTags' = <<>>
    /\ tagLogic' = "AND"
    /\ sortBy' = dateNewest
    /\ currentPage' = 1
    /\ selectedBook' = NoBook
    /\ processedBooks' = <<>>

InitApp ==
    /\ library = NoLibrary
    /\ loadedBooks = <<>>
    /\ activeTab = "dashboard"
    /\ browserSearchQuery = <<>>
    /\ searchQuery = <<>>
    /\ selectedFormat = all
    /\ selectedTags = <<>>
    /\ tagLogic = "AND"
    /\ sortBy = dateNewest
    /\ currentPage = 1
    /\ selectedBook = NoBook
    /\ processedBooks = <<>>
    /\ lastEvent = [name |-> "other", page |-> 1]
    /\ search = <<>>

\* the application on the library of many pages. Its timestamps are all
\* dates, so the comparators are consistent and the sort, which is stable,
\* has one result whatever the engine.
Init == InitApp /\ corpus = "paged" /\ engine = "run-insertion"

\* the application on the small libraries, on either engine
InitSmall == InitApp /\ corpus = "small" /\ engine \in Engines

\* the application on the library whose tag names read as search language
InitTagged == InitApp /\ corpus = "tagged" /\ engine = "run-insertion"

\* a call of advancedSearch that has not returned yet
Call(book, query) == [book |-> book, query |-> query, returned |-> FALSE, result |-> FALSE]

\* advancedSearch on its own: a record and a query are given
InitSearch ==
    /\ library = NoLibrary
    /\ loadedBooks = <<>>
    /\ activeTab = "dashboard"
    /\ browserSearchQuery = <<>>
    /\ searchQuery = <<>>
    /\ selectedFormat = all
    /\ selectedTags = <<>>
    /\ tagLogic = "AND"
    /\ sortBy = dateNewest
    /\ currentPage = 1
    /\ selectedBook = NoBook
    /\ processedBooks = <<>>
    /\ lastEvent = [name |-> "other", page |-> 1]
    /\ corpus = "search"
    /\ engine = "insertion"
    /\ search \in {<<Call(book, query)>> : book \in Pool, query \in SearchQueries}

\* parseQuery and matchToken before they are called: a record and the words
\* of a query are given
Parsing(book, words) ==
    [book |-> book, words |-> words, query |-> joinWords(words),
     parsed |-> FALSE, tokens |-> <<>>, matched |-> FALSE, matches |-> <<>>]

\* parseQuery and matchToken on their own
InitTokens ==
    /\ library = NoLibrary
    /\ loadedBooks = <<>>
    /\ activeTab = "dashboard"
    /\ browserSearchQuery = <<>>
    /\ searchQuery = <<>>
    /\ selectedFormat = all
    /\ selectedTags = <<>>
    /\ tagLogic = "AND"
    /\ sortBy = dateNewest
    /\ currentPage = 1
    /\ selectedBook = NoBook
    /\ processedBooks = <<>>
    /\ lastEvent = [name |-> "other", page |-> 1]
    /\ corpus = "tokens"
    /\ engine = "insertion"
    /\ search \in {<<Parsing(book, words)>> : book \in Pool, words \in TokenQueries}

\* error === null
NoError == "null"

\* the LibraryLoader after its first render, the file the user has at hand,
\* and where the FileReader is
Loader(file) ==
    [file |-> file, reader |-> "idle", loading |-> FALSE, error |-> NoError, calls |-> 0]

\* the LibraryLoader in the application, no library being loaded yet
InitLoader ==
    /\ library = NoLibrary
    /\ loadedBooks = <<>>
    /\ activeTab = "dashboard"
    /\ browserSearchQuery = <<>>
    /\ searchQuery = <<>>
    /\ selectedFormat = all
    /\ selectedTags = <<>>
    /\ tagLogic = "AND"
    /\ sortBy = dateNewest
    /\ currentPage = 1
    /\ selectedBook = NoBook
    /\ processedBooks = <<>>
    /\ lastEvent = [name |-> "other", page |-> 1]
    /\ corpus = "files"
    /\ engine = "insertion"
    /\ search \in {<<Loader(file)>> : file \in Files}

\* the Dashboard before its first render: its books are given
Counting(books) == [books |-> books, rendered |-> FALSE, stats |-> <<>>]

\* the Dashboard on its own
InitStats ==
    /\ library = NoLibrary
    /\ loadedBooks = <<>>
    /\ activeTab = "dashboard"
    /\ browserSearchQuery = <<>>
    /\ searchQuery = <<>>
    /\ selectedFormat = all
    /\ selectedTags = <<>>
    /\ tagLogic = "AND"
    /\ sortBy = dateNewest
    /\ currentPage = 1
    /\ selectedBook = NoBook
    /\ processedBooks = <<>>
    /\ lastEvent = [name |-> "other", page |-> 1]
    /\ corpus = "counted"
    /\ engine = "insertion"
    /\ search \in {<<Counting(books)>> : books \in CountedLibraries}

-----------------------------------------------------------------------------
(* src/App.tsx *)

\* the state of a BookBrowser after its first render, run being the first
\* evaluation of the useMemo of processedBooks
Mounting(initialSearch, lib, run) ==
    /\ searchQuery' = initialSearch
    /\ selectedFormat' = all
    /\ selectedTags' = <<>>
    /\ tagLogic' = "AND"
    /\ sortBy' = dateNewest
    /\ currentPage' = 1
    /\ selectedBook' = NoBook
    /\ processedBooks' = run.result
    /\ library' = [lib EXCEPT !.books = run.books]

\* the first render of a BookBrowser (lines 17-23, 58-104) on the books of lib
Mount(initialSearch, lib) ==
    Mounting(initialSearch, lib,
             processBooks(lib.books, initialSearch, all, <<>>, "AND", dateNewest, engine))

\* LibraryLoader calls onLoaded: handleLibraryLoaded
LibraryLoaded(data) ==
    /\ library.isNull
    /\ library' = Loaded(data)
    /\ loadedBooks' = data
    /\ activeTab' = "dashboard"
    /\ lastEvent' = Event("LibraryLoaded")
    /\ UNCHANGED <<browserSearchQuery, browserVars, corpus, engine, search>>

\* the Load New button: setLibrary(null)
LoadNew ==
    /\ ~library.isNull
    /\ selectedBook = NoBook
    /\ library' = NoLibrary
    /\ loadedBooks' = <<>>
    /\ BrowserGone
    /\ lastEvent' = Event("LoadNew")
    /\ UNCHANGED <<activeTab, browserSearchQuery, corpus, engine, search>>

\* the Dashboard button of the navigation
NavDashboard ==
    /\ ~library.isNull
    /\ selectedBook = NoBook
    /\ activeTab' = "dashboard"
    /\ BrowserGone
    /\ lastEvent' = Event("NavDashboard")
    /\ UNCHANGED <<library, loadedBooks, browserSearchQuery, corpus, engine, search>>

\* the Browser button of the navigation. On the browser tab the BookBrowser
\* stays mounted and its effect on initialSearch (lines 30-34) sees '', which
\* is falsy.
NavBrowser ==
    /\ ~library.isNull
    /\ selectedBook = NoBook
    /\ browserSearchQuery' = <<>>
    /\ activeTab' = "browser"
    /\ IF activeTab = "browser"
       THEN UNCHANGED <<library, browserVars>>
       ELSE Mount(<<>>, library)
    /\ lastEvent' = Event("NavBrowser")
    /\ UNCHANGED <<loadedBooks, corpus, engine, search>>

\* the tags of the tag cloud of the dashboard: the libraries of the model have
\* fewer distinct tags than the cloud has places
cloudTags(books) == tagNames(books)

\* a tag of the cloud is clicked: handleNavigateToTag
NavigateToTag(tag) ==
    /\ ~library.isNull
    /\ activeTab = "dashboard"
    /\ browserSearchQuery' = tag
    /\ activeTab' = "browser"
    /\ Mount(tag, library)
    /\ lastEvent' = Event("NavigateToTag")
    /\ UNCHANGED <<loadedBooks, corpus, engine, search>>

-----------------------------------------------------------------------------
(* src/components/BookBrowser.tsx: the handlers *)

\* the state after a render and its effects: rerun, the useMemo is evaluated
\* again (run); reset, the effect of lines 113-115 sets the page to 1
Rendering(query, format, tags, logic, by, page, book, rerun, reset, run) ==
    /\ searchQuery' = query
    /\ selectedFormat' = format
    /\ selectedTags' = tags
    /\ tagLogic' = logic
    /\ sortBy' = by
    /\ selectedBook' = book
    /\ processedBooks' = IF rerun THEN run.result ELSE processedBooks
    /\ library' = IF rerun THEN [library EXCEPT !.books = run.books] ELSE library
    /\ currentPage' = IF reset THEN 1 ELSE page
    /\ UNCHANGED <<loadedBooks, activeTab, browserSearchQuery, corpus, engine, search>>

\* a render after the handlers set state, with its effects: the memo is
\* recomputed and the page reset when their dependencies changed.
\* tagsChanged: setSelectedTags was given a new array.
Render(query, format, tags, tagsChanged, logic, by, page, book) ==
    Rendering(query, format, tags, logic, by, page, book,
              memoDepsChanged(query # searchQuery, format # selectedFormat,
                              tagsChanged, logic # tagLogic, by # sortBy),
              pageDepsChanged(query # searchQuery, format # selectedFormat,
                              tagsChanged, logic # tagLogic, by # sortBy),
              processBooks(library.books, query, format, tags, logic, by, engine))

\* the controls of the browser can be used: no detail view covers them
Usable == Mounted /\ selectedBook = NoBook

\* the search box: onChange
SetSearchQuery(query) ==
    /\ Usable
    /\ query # searchQuery
    /\ Render(query, selectedFormat, selectedTags, FALSE, tagLogic, sortBy,
              currentPage, NoBook)
    /\ lastEvent' = Event("SetSearchQuery")

\* the sort select: onChange
SetSortBy(by) ==
    /\ Usable
    /\ by # sortBy
    /\ Render(searchQuery, selectedFormat, selectedTags, FALSE, tagLogic, by,
              currentPage, NoBook)
    /\ lastEvent' = Event("SetSortBy")

\* the ALL button of the formats
ClickFormatAll ==
    /\ Usable
    /\ selectedFormat # all
    /\ Render(searchQuery, all, selectedTags, FALSE, tagLogic, sortBy,
              currentPage, NoBook)
    /\ lastEvent' = Event("ClickFormatAll")

\* a button of the format facet (line 248)
ClickFormat(f) ==
    /\ Usable
    /\ Render(searchQuery, IF f = selectedFormat THEN all ELSE f, selectedTags,
              FALSE, tagLogic, sortBy, currentPage, NoBook)
    /\ lastEvent' = Event("ClickFormat")

\* toggleTag, lines 118-122
toggled(prev, tag) ==
    IF arrayIncludes(prev, tag)
    THEN LET other(t) == t # tag IN SelectSeq(prev, other)
    ELSE Append(prev, tag)

\* a tag of the tag explorer, or the X of an active tag chip
ToggleTag(tag) ==
    /\ Usable
    /\ arrayIncludes(selectedTags, tag) \/ Len(selectedTags) < MaxTags
    /\ Render(searchQuery, selectedFormat, toggled(selectedTags, tag), TRUE,
              tagLogic, sortBy, currentPage, NoBook)
    /\ lastEvent' = Event("ToggleTag")

\* the AND / OR button, shown with the active tags (lines 208-217)
ToggleTagLogic ==
    /\ Usable
    /\ Len(selectedTags) > 0
    /\ Render(searchQuery, selectedFormat, selectedTags, FALSE,
              IF tagLogic = "AND" THEN "OR" ELSE "AND", sortBy, currentPage, NoBook)
    /\ lastEvent' = Event("ToggleTagLogic")

\* Clear All (lines 191-201)
ClearAll ==
    /\ Usable
    /\ Len(selectedTags) > 0 \/ selectedFormat # all \/ searchQuery # <<>>
    /\ Render(<<>>, all, <<>>, TRUE, tagLogic, sortBy, currentPage, NoBook)
    /\ lastEvent' = Event("ClearAll")

max(a, b) == IF a > b THEN a ELSE b

min(a, b) == IF a < b THEN a ELSE b

\* the previous-page button (lines 337-345)
PrevPage ==
    /\ Usable
    /\ totalPagesOf(processedBooks) > 1
    /\ currentPage # 1
    /\ Render(searchQuery, selectedFormat, selectedTags, FALSE, tagLogic, sortBy,
              max(1, currentPage - 1), NoBook)
    /\ lastEvent' = Event("PrevPage")

\* the next-page button (lines 349-355)
NextPage ==
    /\ Usable
    /\ totalPagesOf(processedBooks) > 1
    /\ currentPage # totalPagesOf(processedBooks)
    /\ Render(searchQuery, selectedFormat, selectedTags, FALSE, tagLogic, sortBy,
              min(totalPagesOf(processedBooks), currentPage + 1), NoBook)
    /\ lastEvent' = Event("NextPage")

\* a card of the grid is clicked (line 305)
OpenBook(i) ==
    /\ Usable
    /\ i \in 1..min(MaxOpen, Len(paginatedBooksOf(processedBooks, currentPage)))
    /\ Render(searchQuery, selectedFormat, selectedTags, FALSE, tagLogic, sortBy,
              currentPage, <<paginatedBooksOf(processedBooks, currentPage)[i]>>)
    /\ lastEvent' = Event("OpenBook")

\* the detail view is closed (lines 363, 383)
CloseBook ==
    /\ Mounted
    /\ selectedBook # NoBook
    /\ Render(searchQuery, selectedFormat, selectedTags, FALSE, tagLogic, sortBy,
              currentPage, NoBook)
    /\ lastEvent' = Event("CloseBook")

\* a tag of the detail view is clicked (lines 429-432)
ClickDetailTag(t) ==
    /\ Mounted
    /\ selectedBook # NoBook
    /\ Render(searchQuery, selectedFormat, <<t>>, TRUE, tagLogic, sortBy,
              currentPage, NoBook)
    /\ lastEvent' = Event("ClickDetailTag")

-----------------------------------------------------------------------------
(* The specifications *)

\* the handlers of the application but those of the page buttons
Browse ==
    \/ \E data \in Libraries(corpus) : LibraryLoaded(data)
    \/ LoadNew
    \/ NavDashboard
    \/ NavBrowser
    \/ \E tag \in cloudTags(library.books) : NavigateToTag(tag)
    \/ \E query \in Queries(corpus) : SetSearchQuery(query)
    \/ \E by \in SortChoices(corpus) : SetSortBy(by)
    \/ ClickFormatAll
    \/ \E f \in formats(library.books) : ClickFormat(f)
    \/ \E tag \in tagNames(library.books) \cup elements(selectedTags) : ToggleTag(tag)
    \/ ToggleTagLogic
    \/ ClearAll
    \/ \E i \in 1..MaxOpen : OpenBook(i)
    \/ CloseBook
    \/ \E t \in UNION {elements(b.tags) : b \in elements(selectedBook)} : ClickDetailTag(t)

Next ==
    \/ Browse
    \/ PrevPage
    \/ NextPage

Spec == Init /\ [][Next]_vars

\* The small libraries have fewer records than a page, so the page buttons
\* are never rendered (lines 335-336) and Browse is all that can happen.
SpecSmall == InitSmall /\ [][Browse]_vars

\* The same holds of the library whose tag names read as search language.
SpecTagged == InitTagged /\ [][Browse]_vars

\* advancedSearch returns
Evaluate ==
    /\ search # <<>>
    /\ ~search[1].returned
    /\ search' = <<[search[1] EXCEPT
                      !.returned = TRUE,
                      !.result = advancedSearch(search[1].book, search[1].query)]>>
    /\ UNCHANGED <<appVars, browserVars, corpus, lastEvent, engine>>

SpecSearch == InitSearch /\ [][Evaluate]_vars

\* parseQuery returns its tokens
Parse ==
    /\ search # <<>>
    /\ ~search[1].parsed
    /\ search' = <<[search[1] EXCEPT
                      !.parsed = TRUE,
                      !.tokens = parseQuery(search[1].query)]>>
    /\ UNCHANGED <<appVars, browserVars, corpus, lastEvent, engine>>

\* matchToken returns for each of the tokens
Match ==
    /\ search # <<>>
    /\ search[1].parsed
    /\ ~search[1].matched
    /\ search' = <<[search[1] EXCEPT
                      !.matched = TRUE,
                      !.matches = [i \in 1..Len(search[1].tokens) |->
                                      matchToken(search[1].book, search[1].tokens[i])]]>>
    /\ UNCHANGED <<appVars, browserVars, corpus, lastEvent, engine>>

NextTokens == Parse \/ Match

SpecTokens == InitTokens /\ [][NextTokens]_vars

\* the first render of the Dashboard: the useMemo of stats is evaluated
RenderDashboard ==
    /\ search # <<>>
    /\ ~search[1].rendered
    /\ search' = <<[search[1] EXCEPT
                      !.rendered = TRUE,
                      !.stats = stats(search[1].books)]>>
    /\ UNCHANGED <<appVars, browserVars, corpus, lastEvent, engine>>

SpecStats == InitStats /\ [][RenderDashboard]_vars

\* the file is dropped or chosen, for the first time or again after a
\* failure: processFile up to reader.readAsText
ProcessFile ==
    /\ search # <<>>
    /\ library.isNull
    /\ search[1].reader # "reading"
    /\ search' = <<[search[1] EXCEPT
                      !.reader = "reading", !.loading = TRUE, !.error = NoError]>>
    /\ UNCHANGED <<appVars, browserVars, corpus, lastEvent, engine>>

\* the state after reader.onload: the try block has thrown or has called
\* onLoaded, which is handleLibraryLoaded (App.tsx:16-19)
Loading(outcome) ==
    /\ search' = <<[search[1] EXCEPT
                      !.reader = "done",
                      !.loading = FALSE,
                      !.error = IF outcome.loaded THEN NoError
                                ELSE "Failed to parse JSON. Please ensure it matches the Calibre export format.",
                      !.calls = IF outcome.loaded THEN @ + 1 ELSE @]>>
    /\ library' = IF outcome.loaded THEN Loaded(outcome.books) ELSE library
    /\ loadedBooks' = IF outcome.loaded THEN outcome.books ELSE loadedBooks
    /\ activeTab' = IF outcome.loaded THEN "dashboard" ELSE activeTab

\* reader.onload (lines 86-113)
ReaderOnLoad ==
    /\ search # <<>>
    /\ search[1].reader = "reading"
    /\ Loading(tryParse(search[1].file))
    /\ UNCHANGED <<browserSearchQuery, browserVars, corpus, lastEvent, engine>>

\* reader.onerror (lines 114-117)
ReaderOnError ==
    /\ search # <<>>
    /\ search[1].reader = "reading"
    /\ search' = <<[search[1] EXCEPT
                      !.reader = "failed", !.loading = FALSE,
                      !.error = "Error reading file."]>>
    /\ UNCHANGED <<appVars, browserVars, corpus, lastEvent, engine>>

NextLoader == ProcessFile \/ ReaderOnLoad \/ ReaderOnError

SpecLoader == InitLoader /\ [][NextLoader]_vars

-----------------------------------------------------------------------------
(* src/components/BookCover.tsx: the cover cache of one book *)

\* localStorage.getItem of a key never set, and useState<string | null>(null)
NoItem == "null"

\* the marker of line 89
NotFound == "404"

\* the url of line 54 and the secureUrl of line 79
OpenLibraryUrl == "covers.openlibrary.org"

GoogleUrl == "books.google.com"

\* what a fetch and the reading of its body come to: a cover is named, none
\* is named, the response is not ok, or the await throws
Answers == {"cover", "none", "notOk", "throws"}

\* a BookCover instance: mounted is also the isMounted of its effect's
\* closure, pc the await its fetchCover is suspended at
Cover(mounted, pc, coverUrl, loading) ==
    [mounted |-> mounted, pc |-> pc, coverUrl |-> coverUrl, loading |-> loading]

\* no instance, no fetchCover in flight
NoCover == Cover(FALSE, "idle", NoItem, TRUE)

CoverCache(cache, covers) == [cache |-> cache, covers |-> covers]

\* the cover cache on its own: nothing is cached, no BookCover is mounted
InitCovers ==
    /\ library = NoLibrary
    /\ loadedBooks = <<>>
    /\ activeTab = "dashboard"
    /\ browserSearchQuery = <<>>
    /\ searchQuery = <<>>
    /\ selectedFormat = all
    /\ selectedTags = <<>>
    /\ tagLogic = "AND"
    /\ sortBy = dateNewest
    /\ currentPage = 1
    /\ selectedBook = NoBook
    /\ processedBooks = <<>>
    /\ lastEvent = [name |-> "other", page |-> 1]
    /\ corpus = "covers"
    /\ engine = "insertion"
    /\ search = <<CoverCache(NoItem, [i \in 1..MaxCovers |-> NoCover])>>

\* the step of instance i: the cache and the instance after it
CoverStep(i, cache, cover) ==
    /\ search' = <<CoverCache(cache, [search[1].covers EXCEPT ![i] = cover])>>
    /\ UNCHANGED <<appVars, browserVars, corpus, lastEvent, engine>>

\* an instance is mounted and its effect runs (lines 16-30, 99): a cached
\* value is taken, otherwise fetchCover starts and waits for its timer
MountCover(i) ==
    /\ search # <<>>
    /\ LET cached == search[1].cache
           c == search[1].covers[i]
       IN  /\ ~c.mounted
           /\ c.pc \in {"idle", "done"}
           /\ IF cached # NoItem
              THEN CoverStep(i, cached,
                             Cover(TRUE, "done",
                                   IF cached # NotFound THEN cached ELSE NoItem, FALSE))
              ELSE CoverStep(i, cached, Cover(TRUE, "timer", NoItem, TRUE))

\* the instance is unmounted: the cleanup sets isMounted to false (lines
\* 101-103), its fetchCover stays where it is
UnmountCover(i) ==
    /\ search # <<>>
    /\ LET c == search[1].covers[i]
       IN  /\ c.mounted
           /\ CoverStep(i, search[1].cache, Cover(FALSE, c.pc, NoItem, TRUE))

\* the timer of line 36 fires: line 37, then the fetch of line 49
TimerFires(i) ==
    /\ search # <<>>
    /\ LET c == search[1].covers[i]
       IN  /\ c.pc = "timer"
           /\ CoverStep(i, search[1].cache,
                        [c EXCEPT !.pc = IF c.mounted THEN "openlibrary" ELSE "done"])

\* catch (lines 93-96)
caught(c) == [c EXCEPT !.pc = "done", !.loading = IF c.mounted THEN FALSE ELSE c.loading]

\* Open Library has answered (lines 49-64, then the fetch of line 69)
OpenLibraryAnswers(i, answer) ==
    /\ search # <<>>
    /\ LET c == search[1].covers[i]
       IN  /\ c.pc = "openlibrary"
           /\ IF answer = "throws"
              THEN CoverStep(i, search[1].cache, caught(c))
              ELSE IF answer = "cover" /\ c.mounted
              THEN CoverStep(i, OpenLibraryUrl, Cover(TRUE, "done", OpenLibraryUrl, FALSE))
              ELSE CoverStep(i, search[1].cache,
                             [c EXCEPT !.pc = IF c.mounted THEN "google" ELSE "done"])

\* Google Books has answered (lines 69-96)
GoogleAnswers(i, answer) ==
    /\ search # <<>>
    /\ LET c == search[1].covers[i]
       IN  /\ c.pc = "google"
           /\ IF answer = "throws"
              THEN CoverStep(i, search[1].cache, caught(c))
              ELSE IF answer = "cover" /\ c.mounted
              THEN CoverStep(i, GoogleUrl, Cover(TRUE, "done", GoogleUrl, FALSE))
              ELSE IF c.mounted
              THEN CoverStep(i, NotFound, [c EXCEPT !.pc = "done", !.loading = FALSE])
              ELSE CoverStep(i, search[1].cache, [c EXCEPT !.pc = "done"])

NextCovers ==
    \E i \in 1..MaxCovers :
        \/ MountCover(i)
        \/ UnmountCover(i)
        \/ TimerFires(i)
        \/ \E answer \in Answers : OpenLibraryAnswers(i, answer)
        \/ \E answer \in Answers : GoogleAnswers(i, answer)

SpecCovers == InitCovers /\ [][NextCovers]_vars

-----------------------------------------------------------------------------
(* The search language: statements about advancedSearch, under SpecSearch *)

\* the calls of advancedSearch that have returned
Returned == {call \in elements(search) : call.returned}

\* the string is empty or holds white space only
isBlank(query) == \A i \in 1..Len(query) : query[i] \in WhiteSpace

isOr(token) == token.type = "operator" /\ token.value = OR

\* tokens[i..j] is an OR-group: a run of tokens between OR operator tokens (or
\* the ends of the query) that holds a token which is no operator
isGroup(tokens, i, j) ==
    /\ i <= j
    /\ \A k \in i..j : ~isOr(tokens[k])
    /\ i = 1 \/ isOr(tokens[i - 1])
    /\ j = Len(tokens) \/ isOr(tokens[j + 1])
    /\ \E k \in i..j : tokens[k].type # "operator"

\* every token of the group matches the record, AND and NOT being no-ops
groupMatches(book, tokens, i, j) ==
    \A k \in i..j : tokens[k].type # "operator" => matchToken(book, tokens[k])

someGroupMatches(book, tokens) ==
    \E i \in 1..Len(tokens), j \in 1..Len(tokens) :
        isGroup(tokens, i, j) /\ groupMatches(book, tokens, i, j)

\* C1 as stated: for every record and every query, advancedSearch is true
\* iff at least one OR-group of the query matches the record. A blank query
\* has no group and is matched all the same.
C1_EveryQuery ==
    \A call \in Returned :
        call.result = someGroupMatches(call.book, parseQuery(call.query))

\* C1, amended: for every record and every query that is not blank,
\* advancedSearch is true iff at least one OR-group matches, a group being a
\* run of non-operator tokens between OR tokens that matches iff each of its
\* tokens matches, AND being a no-op.
C1_NonBlankQuery ==
    \A call \in Returned :
        ~isBlank(call.query) =>
            call.result = someGroupMatches(call.book, parseQuery(call.query))

\* b AND q OR tag:x matched a record on its second group alone
C1_Witness ==
    \E call \in Returned :
        /\ call.query = AndOrQuery
        /\ call.result
        /\ ~includes(toLowerCase(call.book.publisher), <<"q">>)
        /\ \E t \in elements(call.book.tags) : includes(toLowerCase(t), <<"x">>)

\* C2: for every record and every empty or white-space-only query,
\* advancedSearch returns true.
C2_BlankQueryMatches ==
    \A call \in Returned : isBlank(call.query) => call.result

\* a query of white space only was evaluated
C2_Witness ==
    \E call \in Returned : isBlank(call.query) /\ Len(call.query) > 0 /\ call.result

-----------------------------------------------------------------------------
(* The pipeline: statements about processedBooks, under SpecSmall *)

\* C3: the pipeline never mutates the loaded Record Set: whatever the
\* criteria chosen in the browser, the array of records held by the
\* application has the same elements in the same order as when it was loaded.
C3_RecordSetAsLoaded == ~library.isNull => library.books = loadedBooks

\* C4: re-running the pipeline with the same query, format, selected tags,
\* tag logic and sort key on the Record Set yields the same ordered sequence
\* of records as the one displayed.
C4_RerunIsIdentical ==
    Mounted =>
        processBooks(library.books, searchQuery, selectedFormat, selectedTags,
                     tagLogic, sortBy, engine).result = processedBooks

\* the displayed records are the books array itself, which the pipeline has
\* sorted in place, so a re-run sorts its own output
C4_Witness ==
    /\ Mounted
    /\ aliasesBooks(searchQuery, selectedFormat, selectedTags)
    /\ Len(processedBooks) > 1
    /\ library.books # loadedBooks

\* the record passes the stage of each criterion that is not blank, 'all' or
\* empty
passesStages(book) ==
    /\ ~isBlank(searchQuery) => searchStage(book, searchQuery)
    /\ selectedFormat # all => formatStage(book, selectedFormat)
    /\ selectedTags # <<>> => tagStage(book, selectedTags, tagLogic)

\* C5: the result holds exactly the records of the input that pass all three
\* stages, each once, so it is a sub-collection of the input; a stage whose
\* criterion is blank, 'all' or empty is the identity.
C5_ExactlyThePassing ==
    Mounted =>
        /\ elements(processedBooks) = {b \in elements(library.books) : passesStages(b)}
        /\ Len(processedBooks) = Cardinality(elements(processedBooks))
        /\ (isBlank(searchQuery) /\ selectedFormat = all /\ selectedTags = <<>>)
               => elements(processedBooks) = elements(library.books)

\* a query that is not blank has kept one record of the library and dropped
\* another, no other criterion being set
C5_Witness ==
    /\ Mounted
    /\ ~isBlank(searchQuery) /\ selectedFormat = all /\ selectedTags = <<>>
    /\ processedBooks # <<>>
    /\ Len(processedBooks) < Len(library.books)

\* some tag of the record equals the selected tag once the record's tag is
\* trimmed
carries(book, selectedTag) == \E t \in elements(book.tags) : trim(t) = selectedTag

keptByTags(book) ==
    IF tagLogic = "AND"
    THEN \A selectedTag \in elements(selectedTags) : carries(book, selectedTag)
    ELSE \E selectedTag \in elements(selectedTags) : carries(book, selectedTag)

\* C6: with selected tags, the tag stage keeps a record in AND mode iff for
\* every selected tag some tag of the record equals it after the record's
\* tag is trimmed, and in OR mode iff so for at least one selected tag.
C6_TagStage ==
    (Mounted /\ selectedTags # <<>>) =>
        elements(processedBooks) =
            {b \in elements(library.books) :
                /\ ~isBlank(searchQuery) => searchStage(b, searchQuery)
                /\ selectedFormat # all => formatStage(b, selectedFormat)
                /\ keptByTags(b)}

\* two tags are selected in AND mode: a record that carries one of them only
\* is dropped, a record that carries both, one with white space around it,
\* is kept
C6_Witness ==
    /\ Mounted
    /\ tagLogic = "AND" /\ Len(selectedTags) = 2
    /\ isBlank(searchQuery) /\ selectedFormat = all
    /\ \E b \in elements(library.books) \ elements(processedBooks) :
           \E selectedTag \in elements(selectedTags) : carries(b, selectedTag)
    /\ \E b \in elements(processedBooks) :
           \E t \in elements(b.tags) : trim(t) # t

\* C7: when the selected format is not 'all', the format stage keeps exactly
\* the records one of whose formats equals the selected format when letter
\* case is disregarded.
C7_FormatStage ==
    (Mounted /\ selectedFormat # all) =>
        elements(processedBooks) =
            {b \in elements(library.books) :
                /\ ~isBlank(searchQuery) => searchStage(b, searchQuery)
                /\ selectedTags # <<>> => tagStage(b, selectedTags, tagLogic)
                /\ \E f \in elements(b.formats) :
                       toLowerCase(f) = toLowerCase(selectedFormat)}

\* a record is kept for a format it holds in another letter case
C7_Witness ==
    /\ Mounted
    /\ selectedFormat # all
    /\ \E b \in elements(processedBooks) :
           /\ \A f \in elements(b.formats) : f # selectedFormat
           /\ \E f \in elements(b.formats) : toLowerCase(f) = selectedFormat

\* C8: under the newest-first sort the output is ordered by non-increasing
\* timestamp, and a record whose timestamp is no date counts as the oldest:
\* it never precedes a record whose timestamp is a date.
C8_NewestFirst ==
    (Mounted /\ sortBy = dateNewest) =>
        \A i \in 1..Len(processedBooks), j \in 1..Len(processedBooks) :
            (i < j /\ ~getTime(processedBooks[j].timestamp).isNaN) =>
                /\ ~getTime(processedBooks[i].timestamp).isNaN
                /\ getTime(processedBooks[i].timestamp).value
                       >= getTime(processedBooks[j].timestamp).value

-----------------------------------------------------------------------------
(* Pagination: statements about the page, under Spec *)

criteriaChanged ==
    \/ searchQuery' # searchQuery
    \/ selectedFormat' # selectedFormat
    \/ selectedTags' # selectedTags
    \/ sortBy' # sortBy

\* C9: while the browser is shown, the page is 1 after every step that
\* changes the query, the selected format, the selected tags or the sort key,
\* and a step that changes the tag logic alone leaves the page as it was.
C9_PageReset ==
    [][(Mounted /\ Mounted') =>
          /\ criteriaChanged => currentPage' = 1
          /\ (~criteriaChanged /\ tagLogic' # tagLogic) => currentPage' = currentPage]_vars

\* the tag logic was toggled on a page after the first, which is still shown
C9_Witness ==
    /\ Mounted
    /\ lastEvent.name = "ToggleTagLogic"
    /\ lastEvent.page > 1
    /\ currentPage = lastEvent.page

\* the greater and the lesser of two numbers
greater(a, b) == IF a >= b THEN a ELSE b

lesser(a, b) == IF a <= b THEN a ELSE b

\* C10: pagination is slicing with pages of 24 counted from 1: totalPages is
\* ceil(count / 24) and page p shows the records at the 0-based indices from
\* (p - 1) * 24 up to, not including, min(p * 24, count); of 50 records page 1
\* shows [0..23], page 3 shows [48..49] and totalPages is 3.
C10_Slicing ==
    Mounted =>
        LET count == Len(processedBooks)
            shown == paginatedBooksOf(processedBooks, currentPage)
            first == (currentPage - 1) * 24
        IN  /\ 24 * totalPagesOf(processedBooks) >= count
            /\ 24 * (totalPagesOf(processedBooks) - 1) < count \/ count = 0
            /\ count = 0 => totalPagesOf(processedBooks) = 0
            /\ Len(shown) = greater(0, lesser(currentPage * 24, count) - first)
            /\ \A k \in 1..Len(shown) : shown[k] = processedBooks[first + k]
            /\ count = 50 =>
                   /\ totalPagesOf(processedBooks) = 3
                   /\ currentPage = 1 => shown = SubSeq(processedBooks, 1, 24)
                   /\ currentPage = 3 => shown = <<processedBooks[49], processedBooks[50]>>

\* the third page of 50 records is shown
C10_Witness == Mounted /\ Len(processedBooks) = 50 /\ currentPage = 3

\* the query is tag:X, X being text without white space or quotes
isTagQuery(query) ==
    /\ Len(query) > 4
    /\ SubSeq(query, 1, 4) = <<"t","a","g",":">>
    /\ \A i \in 1..Len(query) : query[i] \notin WhiteSpace \cup {Quote}

\* C13: for every query of the form tag:X and every record, the record
\* matches iff some element of its tags contains X as a substring, letter
\* case apart. The query tag:not matches the records that have no such tag.
C13_TagQuery ==
    \A call \in Returned :
        isTagQuery(call.query) =>
            call.result =
                (\E k \in 1..Len(call.book.tags) :
                    includes(toLowerCase(call.book.tags[k]),
                             toLowerCase(SubSeq(call.query, 5, Len(call.query)))))

-----------------------------------------------------------------------------
(* The tokens: statements about parseQuery and matchToken, under SpecTokens *)

\* the calls of parseQuery that have returned
Parsed == {call \in elements(search) : call.parsed}

\* the calls whose tokens have been matched against the record
Matched == {call \in elements(search) : call.matched}

\* the word is written with a leading - prefix
prefixed(word) == Len(word) > 1 /\ word[1] = "-"

\* token i of the call was made from word i of its query: there is a token
\* for each word, and each token holds text of its word
aligned(call) ==
    /\ Len(call.tokens) = Len(call.words)
    /\ \A i \in 1..Len(call.tokens) :
           includes(toLowerCase(call.words[i]), toLowerCase(call.tokens[i].value))

\* C11: for every token produced by parseQuery that is not an operator, the
\* negated flag is true iff the token was written with a leading - prefix.
\* The flag is also set on the tokens "not" and tag:not, written without one.
C11_NegatedIffPrefixed ==
    \A call \in Parsed :
        aligned(call) =>
            \A i \in 1..Len(call.tokens) :
                call.tokens[i].type # "operator" =>
                    (call.tokens[i].negated <=> prefixed(call.words[i]))

\* the word without its - prefix
unprefixed(word) == IF prefixed(word) THEN Tail(word) ELSE word

\* the word is the field name f in some letter case, a colon and a value
hasPrefix(word, f) ==
    LET w == unprefixed(word)
    IN  /\ Len(w) > Len(f) + 1
        /\ toLowerCase(SubSeq(w, 1, Len(f))) = f
        /\ w[Len(f) + 1] = ":"

\* what is written after the colon, without the quotes of a phrase
writtenValue(word, f) ==
    LET w == unprefixed(word)
        v == SubSeq(w, Len(f) + 2, Len(w))
    IN  IF Len(v) > 2 /\ v[1] = Quote /\ v[Len(v)] = Quote
        THEN SubSeq(v, 2, Len(v) - 1) ELSE v

\* text holds v, letter case apart
holds(text, v) == includes(toLowerCase(text), toLowerCase(v))

\* v is found in the text designated by the field f of the record
designated(book, f, v) ==
    CASE f = <<"t","i","t","l","e">> -> holds(book.title, v) \/ holds(book.title_sort, v)
      [] f = <<"a","u","t","h","o","r">> -> holds(book.authors, v) \/ holds(book.author_sort, v)
      [] f = <<"t","a","g">> -> \E k \in 1..Len(book.tags) : holds(book.tags[k], v)
      [] f = <<"p","u","b","l","i","s","h","e","r">> -> holds(book.publisher, v)

\* C12: a field prefix title:, author:, tag: or publisher: written in any
\* letter case binds the value to that field: the token is matched against
\* that field's designated text only (inverted when the token is negated).
\* TITLE:c is matched against the authors, the tags and the publisher too.
C12_PrefixInAnyCase ==
    \A call \in Matched :
        aligned(call) =>
            \A i \in 1..Len(call.tokens), f \in FieldNames :
                hasPrefix(call.words[i], f) =>
                    call.matches[i] =
                        (call.tokens[i].negated
                            # designated(call.book, f, writtenValue(call.words[i], f)))

\* C14: a non-negated token without a field matches a record iff its value
\* is a substring, letter case apart, of the title, of the authors string, of
\* some tag or of the publisher; terms and phrases alike.
C14_TokenWithoutField ==
    \A call \in Matched :
        \A i \in 1..Len(call.tokens) :
            LET token == call.tokens[i]
            IN  (token.type \in {"term", "phrase"} /\ token.field = undefined
                    /\ ~token.negated) =>
                    call.matches[i] =
                        (\/ holds(call.book.title, token.value)
                         \/ holds(call.book.authors, token.value)
                         \/ \E k \in 1..Len(call.book.tags) :
                                holds(call.book.tags[k], token.value)
                         \/ holds(call.book.publisher, token.value))

\* a phrase without field is matched by the title, and a term without field
\* that only the title sort key holds is not matched
C14_Witness ==
    \E call \in Matched :
        /\ \E i \in 1..Len(call.tokens) :
              /\ call.tokens[i].type = "phrase" /\ call.tokens[i].field = undefined
              /\ ~call.tokens[i].negated /\ call.matches[i]
        /\ \E i \in 1..Len(call.tokens) :
              /\ call.tokens[i].type = "term" /\ call.tokens[i].field = undefined
              /\ ~call.tokens[i].negated /\ ~call.matches[i]
              /\ holds(call.book.title_sort, call.tokens[i].value)

\* C15: for every token T and record R, matchToken(R, T with negated true) is
\* the negation of matchToken(R, T with negated false); the result for T as
\* parsed follows its own flag, and a query of tokens without operators
\* matches iff each token does, so that negation inverts one token's result
\* and not the query's.
C15_NegationPerToken ==
    \A call \in Matched :
        /\ \A i \in 1..Len(call.tokens) :
              LET T == call.tokens[i]
                  positive == matchToken(call.book, [T EXCEPT !.negated = FALSE])
              IN  /\ matchToken(call.book, [T EXCEPT !.negated = TRUE]) = ~positive
                  /\ call.matches[i] = IF T.negated THEN ~positive ELSE positive
        /\ (\A i \in 1..Len(call.tokens) : call.tokens[i].type # "operator") =>
              advancedSearch(call.book, call.query)
                  = (\A i \in 1..Len(call.tokens) : call.matches[i])

\* -c b on a record whose authors hold c and whose title holds b: the
\* negated token does not match, the other does
C15_Witness ==
    \E call \in Matched :
        /\ Len(call.tokens) = 2
        /\ call.tokens[1].negated /\ ~call.matches[1]
        /\ ~call.tokens[2].negated /\ call.tokens[2].type = "term" /\ call.matches[2]

\* the text is AND, OR or NOT in some letter case
isKeyword(text) == toUpperCase(text) \in {AND, OR, NOT}

\* the word is a keyword between quotes
quotedKeyword(word) ==
    /\ Len(word) > 2
    /\ word[1] = Quote /\ word[Len(word)] = Quote
    /\ isKeyword(SubSeq(word, 2, Len(word) - 1))

\* the value is found in one of the texts searched when no field is given
anywhere(book, v) ==
    \/ holds(book.title, v) \/ holds(book.authors, v)
    \/ \E k \in 1..Len(book.tags) : holds(book.tags[k], v)
    \/ holds(book.publisher, v)

\* C16: parseQuery emits an operator token exactly for the bare values that
\* are AND, OR or NOT in some letter case, and a keyword written between
\* quotes or after a field prefix is searched as literal text: the record
\* matches iff the text searched holds the word. The tokens of "not" and
\* tag:not are negated and match the records that do not hold the word.
C16_KeywordsAsText ==
    \A call \in Matched :
        aligned(call) =>
            \A i \in 1..Len(call.tokens) :
                LET word == call.words[i]
                IN  /\ call.tokens[i].type = "operator" <=> isKeyword(unprefixed(word))
                    /\ call.tokens[i].type \in {"operator", "term", "phrase"}
                    /\ quotedKeyword(word) =>
                           call.matches[i]
                               = anywhere(call.book, SubSeq(word, 2, Len(word) - 1))
                    /\ \A f \in FieldNames :
                           (hasPrefix(word, f) /\ SubSeq(word, 1, Len(f)) = f
                                /\ isKeyword(writtenValue(word, f))) =>
                               call.matches[i]
                                   = designated(call.book, f, writtenValue(word, f))

\* the ways the token can have been written: with or without a - prefix,
\* after its field prefix if it has one, between quotes if it is a phrase
writtenForms(token) ==
    LET fld  == IF token.field = undefined THEN <<>> ELSE token.field \o <<":">>
        body == IF token.type = "phrase"
                THEN <<Quote>> \o token.value \o <<Quote>> ELSE token.value
    IN  {fld \o body, <<"-">> \o fld \o body}

\* the form is what the query holds from position p on; an operator is
\* stored in upper case whatever was written
writtenAt(query, p, token, form) ==
    /\ p + Len(form) - 1 <= Len(query)
    /\ LET text == SubSeq(query, p, p + Len(form) - 1)
       IN  IF token.type = "operator" THEN toUpperCase(text) = form ELSE text = form

\* from position p on, the query is the tokens from index i on as they were
\* written, in order, with white space only between and around them
RECURSIVE spelled(_, _, _, _)
spelled(query, p, tokens, i) ==
    IF p <= Len(query) /\ query[p] \in WhiteSpace
    THEN spelled(query, p + 1, tokens, i)
    ELSE IF i > Len(tokens) THEN p > Len(query)
    ELSE \E form \in writtenForms(tokens[i]) :
            /\ writtenAt(query, p, tokens[i], form)
            /\ spelled(query, p + Len(form), tokens, i + 1)

\* partial field syntax: a bare tag:, an unrecognised field name, an
\* unclosed quote
Malformed ==
    { <<"t","a","g",":">>, <<"f","o","o",":","b","a","r">>, <<Quote,"a">> }

\* C17: parseQuery returns for every query and drops no input: the query is
\* its tokens as written, separated by white space only, so that every run of
\* text or quoted phrase gave a token; a bare tag:, foo:bar and an unclosed
\* quote give an unfielded term holding that text; and only AND, OR and NOT
\* give operators.
C17_NothingDropped ==
    \A call \in Parsed :
        /\ spelled(call.query, 1, call.tokens, 1)
        /\ \A i \in 1..Len(call.tokens) :
              /\ call.tokens[i].type \in {"operator", "term", "phrase"}
              /\ call.tokens[i].type = "operator" =>
                    call.tokens[i].value \in {AND, OR, NOT}
              /\ call.tokens[i].field # undefined =>
                    toLowerCase(call.tokens[i].field) \in FieldNames
        /\ aligned(call) =>
              \A i \in 1..Len(call.tokens) :
                  call.words[i] \in Malformed =>
                      call.tokens[i] = [type |-> "term", value |-> call.words[i],
                                        field |-> undefined, negated |-> FALSE]

\* a query of a word of partial field syntax and a keyword has been parsed
\* into a term and an operator
C17_Witness ==
    \E call \in Parsed :
        /\ Len(call.words) = 2 /\ Len(call.tokens) = 2
        /\ call.words[1] \in Malformed
        /\ call.tokens[1].type = "term" /\ call.tokens[2].type = "operator"

-----------------------------------------------------------------------------
(* The NOT keyword: a statement about advancedSearch, under SpecSearch *)

\* the words that are terms: the words but the keywords
Terms == {w \in Words : toUpperCase(w) \notin {AND, OR, NOT}}

\* C18: a standalone NOT is inert: for every record and all terms a and b,
\* the query a NOT b matches exactly when the query a b matches; the - prefix
\* is what negates: a -c matches iff a matches and c does not.
C18_NotIsInert ==
    \A call \in Returned :
        \A a \in Terms, b \in Terms :
            /\ call.query = a \o <<" ","N","O","T"," ">> \o b =>
                  call.result = advancedSearch(call.book, a \o <<" ">> \o b)
            /\ (prefixed(b) /\ call.query = a \o <<" ">> \o b) =>
                  call.result = (advancedSearch(call.book, a)
                                    /\ ~advancedSearch(call.book, Tail(b)))

\* a NOT b, b being written without prefix, is matched by a record that b
\* matches
C18_Witness ==
    \E call \in Returned :
        \E a \in Terms, b \in Terms :
            /\ call.query = a \o <<" ","N","O","T"," ">> \o b
            /\ ~prefixed(b)
            /\ call.result
            /\ advancedSearch(call.book, b)

-----------------------------------------------------------------------------
(* The statistics of the dashboard *)

\* the Dashboard is rendered (App.tsx:31-38)
DashboardShown == ~library.isNull /\ activeTab = "dashboard"

\* C19, under SpecSmall: for a loaded library, whatever the user has done in
\* the browser, the dashboard shows the statistics (counts and order of the
\* lists) of the library as it was loaded. After a sort in the browser has
\* reordered the books array, languages of equal count change places.
C19_StatsAsLoaded ==
    DashboardShown => stats(library.books) = stats(loadedBooks)

\* the renders of the Dashboard on its own that are done
Rendered == {call \in elements(search) : call.rendered}

\* the keys of the records from index i on, in the order of the scan
RECURSIVE scanned(_, _, _)
scanned(books, i, counted) ==
    IF i > Len(books) THEN <<>>
    ELSE keysOf(books[i], counted) \o scanned(books, i + 1, counted)

\* the number of times the key was met in the scan
countOf(keys, key) == Cardinality({i \in 1..Len(keys) : keys[i] = key})

\* where the key was met first
firstMet(keys, key) == least({i \in 1..Len(keys) : keys[i] = key})

\* key a comes before key b: its count is greater, or the counts are equal
\* and a was met first
ranksBefore(keys, a, b) ==
    \/ countOf(keys, a) > countOf(keys, b)
    \/ countOf(keys, a) = countOf(keys, b) /\ firstMet(keys, a) < firstMet(keys, b)

\* the list is the first n keys met in the scan, in that order, each with
\* its count
isTop(list, keys, n) ==
    /\ Len(list) = min(n, Cardinality(elements(keys)))
    /\ \A i \in 1..Len(list) :
          /\ list[i].name \in elements(keys)
          /\ list[i].value = countOf(keys, list[i].name)
    /\ \A i \in 1..Len(list), j \in 1..Len(list) :
          i < j => ranksBefore(keys, list[i].name, list[j].name)
    /\ \A i \in 1..Len(list) :
          \A key \in elements(keys) \ {list[j].name : j \in 1..Len(list)} :
              ranksBefore(keys, list[i].name, key)

\* C20, under SpecStats: each of the four lists (languages 5, formats 5,
\* authors 10, tags 60) is in non-increasing order of count, keys of equal
\* count in the order in which they were first met in the scan, and is the
\* first N entries of that order. Keys that are numbers come first among the
\* keys of their count, in ascending order.
C20_TopLists ==
    \A call \in Rendered :
        /\ isTop(call.stats.topLanguages, scanned(call.books, 1, "languages"), 5)
        /\ isTop(call.stats.topFormats, scanned(call.books, 1, "formats"), 5)
        /\ isTop(call.stats.topAuthors, scanned(call.books, 1, "authors"), 10)
        /\ isTop(call.stats.topTags, scanned(call.books, 1, "tags"), 60)

\* text[i..j] is a segment of text: a maximal run without &
isSegment(text, i, j) ==
    /\ \A k \in i..j : text[k] # "&"
    /\ i = 1 \/ text[i - 1] = "&"
    /\ j = Len(text) \/ text[j + 1] = "&"

\* the places of the library: record b, from i to j of its authors string;
\* an author is named at a place that is a segment and is not blank
authorPlaces(books) ==
    UNION {{<<b, i, j>> : i \in 1..Len(books[b].authors),
                         j \in 1..Len(books[b].authors)} : b \in 1..Len(books)}

namesAuthor(books, place) ==
    /\ place[2] <= place[3]
    /\ isSegment(books[place[1]].authors, place[2], place[3])
    /\ trim(SubSeq(books[place[1]].authors, place[2], place[3])) # <<>>

authorAt(books, place) ==
    trim(SubSeq(books[place[1]].authors, place[2], place[3]))

\* C21, under SpecStats: the authors are the segments of each authors string
\* between &, trimmed, the empty ones discarded; each adds one to the count
\* of that string, letter case kept, and the number of unique authors is the
\* number of distinct such strings.
C21_Authors ==
    \A call \in Rendered :
        LET places == {place \in authorPlaces(call.books) :
                            namesAuthor(call.books, place)}
            names  == {authorAt(call.books, place) : place \in places}
            list   == call.stats.topAuthors
        IN  /\ call.stats.totalAuthors = Cardinality(names)
            /\ {list[i].name : i \in 1..Len(list)} \subseteq names
            /\ Len(list) = min(10, Cardinality(names))
            /\ \A i \in 1..Len(list) :
                  list[i].value = Cardinality({place \in places :
                        authorAt(call.books, place) = list[i].name})

\* a library with d & c, with C, and with an authors string that has
\* blank segments: four authors, c and C counted apart
C21_Witness ==
    \E call \in Rendered :
        /\ {call.books[i].id : i \in 1..Len(call.books)} = {1, 2, 3}
        /\ call.stats.totalAuthors = 4

-----------------------------------------------------------------------------
(* Ingestion: a statement about the LibraryLoader, under SpecLoader *)

\* the document is an array, or an object with a books array
shaped(file) ==
    /\ file.parses
    /\ \/ file.json.kind = "array"
       \/ file.json.kind = "object" /\ file.json.items[2].kind = "array"

\* the array of the document
recordsOf(file) ==
    IF file.json.kind = "array" THEN file.json.items ELSE file.json.items[2].items

\* the element is an object whose title is a string
hasTitleString(element) ==
    element.kind = "object" /\ element.items[1].kind = "string"

\* the load callback has not been invoked, the library is unloaded, an error
\* is shown and the loading flag is false
rejected(loader) ==
    /\ loader.calls = 0
    /\ library.isNull
    /\ loader.error # NoError
    /\ ~loader.loading

\* C22, under SpecLoader: a document is accepted if it is an array of book
\* objects or an object with a books array, and rejected when its first
\* element lacks a title string; on every rejection, unparsable JSON and a
\* failed read included, the load callback is not invoked, the library stays
\* unloaded, an error is shown and the loading flag ends false. A first
\* element whose title is the number 42 or true is accepted.
C22_Ingestion ==
    \A loader \in elements(search) :
        /\ loader.reader = "failed" => rejected(loader)
        /\ loader.reader = "done" =>
              /\ loader.calls = 0 => rejected(loader)
              /\ ~shaped(loader.file) => rejected(loader)
              /\ shaped(loader.file) =>
                    LET records == recordsOf(loader.file)
                    IN  /\ (Len(records) > 0 /\ ~hasTitleString(records[1])) =>
                              rejected(loader)
                        /\ (Len(records) = 0
                                \/ /\ hasTitleString(records[1])
                                   /\ records[1].items[1].text # <<>>) =>
                              /\ loader.calls = 1
                              /\ library = Loaded(records)

-----------------------------------------------------------------------------
(* Navigation and the state of the browser, under Spec and SpecSmall *)

\* C23, under Spec: after a click on the Browser button of the navigation,
\* from any state with a loaded library, the search query of the browser is
\* empty. On the browser tab, entered through a tag of the cloud, the query
\* stays the tag.
C23_NavBrowserResets == [][NavBrowser => searchQuery' = <<>>]_vars

\* C24: while the browser is shown, the page is at least 1 and at most the
\* greater of 1 and the number of pages, so a result that is not empty is
\* never shown as an empty page.
C24_PageInRange ==
    Mounted =>
        /\ 1 <= currentPage
        /\ currentPage <= greater(1, totalPagesOf(processedBooks))
        /\ processedBooks # <<>> => paginatedBooksOf(processedBooks, currentPage) # <<>>

\* C25, under SpecSmall: the displayed result is the pipeline's output for
\* the Record Set as it was loaded and the current criteria, whatever was
\* chosen before: the order of records with equal sort keys included.
C25_HistoryFree ==
    Mounted =>
        processedBooks =
            processBooks(loadedBooks, searchQuery, selectedFormat, selectedTags,
                         tagLogic, sortBy, engine).result

\* C26, under SpecSmall: after every step that leaves the browser shown,
\* every selected tag is a name of the tag facet index, no tag is selected
\* twice, and when the step was a click on a tag of the detail view the book
\* that was open passes the tag stage.
C26_SelectedTagsInIndex ==
    [][Mounted' =>
          /\ \A i \in 1..Len(selectedTags') :
                 /\ selectedTags'[i] \in tagNames(library'.books)
                 /\ \A j \in 1..Len(selectedTags') : selectedTags'[j] = selectedTags'[i] => j = i
          /\ \A b \in elements(selectedBook) :
                 (\E t \in elements(b.tags) : ClickDetailTag(t)) =>
                     tagStage(b, selectedTags', tagLogic')]_vars

\* the record contributed the format to the format facet list
contributes(book, format) ==
    \E f \in elements(book.formats) : toLowerCase(trim(f)) = format

\* C27, under SpecSmall: with a blank query and no selected tag, when a
\* format of the facet list is selected the result holds every record that
\* contributed that format to the list, so it is not empty.
C27_FacetBackedByFilter ==
    (/\ Mounted
     /\ trim(searchQuery) = <<>>
     /\ selectedTags = <<>>
     /\ selectedFormat \in formats(library.books)) =>
        /\ \A b \in elements(library.books) :
               contributes(b, selectedFormat) => b \in elements(processedBooks)
        /\ processedBooks # <<>>

-----------------------------------------------------------------------------
(* The tag cloud, under SpecTagged *)

\* C28: a click on a tag of the dashboard's tag cloud opens the browser with
\* the tag name as its query, and the list then shown holds every record
\* that has this tag, trimmed.
C28_CloudTagOpensItsRecords ==
    [][\A tag \in cloudTags(library.books) :
          NavigateToTag(tag) =>
              /\ Mounted'
              /\ searchQuery' = tag
              /\ \A b \in elements(library.books) :
                     hasTag(b, tag) => b \in elements(processedBooks')]_vars

-----------------------------------------------------------------------------
(* Queries of operators only, under SpecSearch *)

\* the query has tokens and they are all operator tokens
operatorsOnly(query) ==
    LET tokens == parseQuery(query)
    IN  /\ Len(tokens) > 0
        /\ \A i \in 1..Len(tokens) : tokens[i].type = "operator"

\* C29: a query that is not blank and whose tokens are all boolean operators
\* yields no OR-group and matches no record.
C29_OperatorsOnly ==
    \A call \in Returned :
        (~isBlank(call.query) /\ operatorsOnly(call.query)) =>
            /\ groupsOf(splitByOr(parseQuery(call.query), 1, <<>>, <<>>)) = <<>>
            /\ ~call.result

\* a query of several operators, an OR among them, matched nothing
C29_Witness ==
    \E call \in Returned :
        /\ operatorsOnly(call.query)
        /\ Len(parseQuery(call.query)) > 1
        /\ \E i \in 1..Len(parseQuery(call.query)) : parseQuery(call.query)[i].value = OR
        /\ ~call.result

-----------------------------------------------------------------------------
(* The cover cache, under SpecCovers *)

\* C30: once the cache holds a cover URL for the book, no step of any
\* BookCover instance replaces it by the marker 404.
C30_UrlNeverBecomes404 ==
    [][(search # <<>> /\ search[1].cache \in {OpenLibraryUrl, GoogleUrl}) =>
          search'[1].cache # NotFound]_vars

=========================================================================
